---- MODULE Spec2Model ----
(***************************************************************************)
(* Session persistence and login/logout lifecycle of the Dash portal.      *)
(*                                                                         *)
(* The database-backed Flask session interface (app/auth/session.py), the  *)
(* login and logout callbacks (app/ui/pages/login.py, app/ui/routes.py)    *)
(* and the parts of AuthService and AdminService they call.                *)
(*                                                                         *)
(* Every database call of the code opens its own short transaction:        *)
(* a SELECT, then attribute assignments on the loaded ORM object, then     *)
(* commit().  The SELECT and the commit are separate steps here, so that   *)
(* the requests of several clients interleave between them as they do      *)
(* under PostgreSQL's READ COMMITTED.  On commit the ORM's unit of work    *)
(* issues an UPDATE holding only the attributes whose assigned value       *)
(* differs from the value that was loaded (Flush below).                   *)
(***************************************************************************)
EXTENDS Integers, FiniteSets, Sequences, TLC

\* ------------------------------------------------------------ bounds
\* Last tick of the wall clock (datetime.now(timezone.utc)).
MaxTime == 1
\* Number of requests the clients send in one run.
MaxRequests == 3
\* settings.session_lifetime, in clock ticks (one tick = 30 minutes).
Lifetime == 1

\* The workers that serve requests concurrently.
Reqs == {1, 2}
Users == {"u1", "u2"}
None == "none"
\* Session ids; a cookie value of 0 stands for a request without session cookie.
Sids == 1..(MaxRequests + 1)
\* A cookie value no session ever had.
Garbage == MaxRequests + 2

\* ------------------------------------------------------------ values
\* dict(db_session) of an empty session: {}. The key permanent is Flask's
\* "_permanent", the place where SessionMixin.permanent keeps its value.
EmptyData == [user_id |-> None, username |-> None, remember |-> None,
              permanent |-> None]

\* DatabaseSession.__init__ on no initial data: self.permanent = True
FreshData == [EmptyData EXCEPT !.permanent = "yes"]

\* AuthProfile.to_dict() plus the remember flag, as process_login builds it.
\* username stands for every profile key other than user_id.
ProfileData(u, remember) ==
    [user_id |-> u, username |-> u, remember |-> IF remember THEN "yes" ELSE "no",
     permanent |-> None]

\* scalar_one_or_none() returning None
NoRow == [session_id |-> 0, session_token |-> 0, user_id |-> None,
          is_active |-> FALSE, expires_at |-> 0, session_data |-> EmptyData]

\* The password each seeded account was created with.
PasswordOf(u) == IF u = "u1" THEN "p1" ELSE "p2"
Passwords == {"p1", "p2"}

\* The values of the login form's remember checkbox the clients send.
RememberInputs == {TRUE}

NoResponse == [kind |-> "none", sid |-> 0]

IdleReq == [pc |-> "idle", cookie |-> 0, sid |-> 0, new |-> TRUE,
            data |-> EmptyData, record |-> NoRow, t |-> 0, expires |-> 0,
            resp |-> NoResponse, outcome |-> "none", logs |-> <<>>]

VARIABLES
    now,        \* the wall clock
    rows,       \* table auth.user_sessions: a set of UserSession rows
    nextRowId,  \* the serial behind user_sessions.session_id
    users,      \* table auth.users: user_id -> [present, is_active]
    nextSid,    \* the next value uuid4().hex yields (never one seen before)
    req,        \* per request: its position and its flask session object
    verified,   \* history: users for whom a login with the right password was
                \* submitted while the account was active and the resolver worked
    loggedOut,  \* history: tokens whose authenticated logout request has completed
    started,    \* number of requests received so far
    issued,     \* the session ids the clients have received in a cookie
    accounts,   \* table auth.users: user_id -> [failed_login_attempts, last_login]
    auth_logs,  \* table audit.auth_logs: the AuthLog rows, in insertion order
    call,       \* per caller of AuthService.authenticate: its position and result
    user_roles, \* table auth.user_roles: a set of UserRole rows
    group_roles,\* table auth.group_roles: a set of GroupRole rows
    input,      \* the argument a resolver function is applied to
    output,     \* what the function returned for it
    entities,   \* tables auth.roles, auth.groups, auth.users: the name columns
                \* of the rows AdminService has created, in insertion order
    admin,      \* per caller of AdminService.create_*: its position and result
    report_links, \* table auth.role_reports: a set of RoleReport rows
    user_groups \* table auth.user_groups: a set of UserGroup rows

\* The state of the session store, and the state of the account, audit and
\* grant tables the session store never writes.  The session store never reads
\* them either: in the specifications of the store a login keeps the audit rows
\* of its call in req[r].logs, and the effect of authenticate on the tables is
\* followed by AuthenticateSelect and AuthenticateCommit in SpecAuth.
storeVars == <<now, rows, nextRowId, users, nextSid, req, verified, loggedOut, started, issued>>
authVars == <<accounts, auth_logs, call, user_roles, group_roles, input, output>>
adminVars == <<entities, admin, report_links, user_groups>>
vars == <<now, rows, nextRowId, users, nextSid, req, verified, loggedOut, started, issued,
          accounts, auth_logs, call, user_roles, group_roles, input, output,
          entities, admin, report_links, user_groups>>

\* ------------------------------------------------------------ storage
RowsOf(table, token) == {x \in table : x.session_token = token}

\* select(UserSession).where(session_token == sid) ... scalar_one_or_none()
SelectByToken(table, token) ==
    IF RowsOf(table, token) = {} THEN NoRow
    ELSE CHOOSE x \in RowsOf(table, token) : TRUE

RowById(table, id) ==
    IF \E x \in table : x.session_id = id
    THEN CHOOSE x \in table : x.session_id = id
    ELSE NoRow

\* record.is_active and record.expires_at > now, the negation of the test
\* open_session applies to a found record
Live(record, t) == record.is_active /\ ~(record.expires_at <= t)

\* The UPDATE the unit of work emits on commit: of the attributes assigned to
\* the loaded object, those whose value differs from the loaded one.
Flush(current, loaded, assigned) ==
    [f \in DOMAIN current |->
        IF f \in DOMAIN assigned /\ assigned[f] # loaded[f]
        THEN assigned[f] ELSE current[f]]

\* No assigned attribute differs from the loaded one: commit emits no UPDATE.
NoChange(loaded, assigned) == \A f \in DOMAIN assigned : assigned[f] = loaded[f]

\* Whether the UPDATE of a commit succeeds: it must match the row by primary
\* key (else StaleDataError) and keep the foreign key (else IntegrityError).
UpdateOk(table, usrs, loaded, assigned) ==
    \/ NoChange(loaded, assigned)
    \/ /\ RowById(table, loaded.session_id) # NoRow
       /\ ("user_id" \in DOMAIN assigned /\ assigned.user_id # loaded.user_id)
             => (assigned.user_id \in Users /\ usrs[assigned.user_id].present)

\* The table after the commit of the assignments made to a loaded record.
Updated(table, loaded, assigned) ==
    IF NoChange(loaded, assigned) THEN table
    ELSE LET cur == RowById(table, loaded.session_id) IN
         (table \ {cur}) \cup {Flush(cur, loaded, assigned)}

\* Variant: the table without the UNIQUE constraint on session_token.
NoUniqueConstraint(table, token) == TRUE

\* The UNIQUE constraint on user_sessions.session_token.
UniqueTokenOk(table, token) == RowsOf(table, token) = {}

\* The NOT NULL foreign key user_sessions.user_id -> users.user_id.
ForeignKeyOk(usrs, u) == u \in Users /\ usrs[u].present

\* What get_expiration_time(app, session) returns at time t: None for a
\* session that is not permanent, else now + PERMANENT_SESSION_LIFETIME as a
\* naive UTC datetime or as an aware one (wall clock and UTC offset).
ExpiryInputs(d, t) ==
    IF d.permanent = None
    THEN {[kind |-> "none", wall |-> 0, off |-> 0]}
    ELSE {[kind |-> "naive", wall |-> t + Lifetime, off |-> 0]}
         \cup {[kind |-> "aware", wall |-> t + Lifetime + o, off |-> o] : o \in {0, 1}}

\* Variant: an aware expiry whose wall clock is stored without conversion.
NormaliseExpiresKeepsWall(e, t) ==
    CASE e.kind = "none"  -> t + Lifetime
      [] OTHER            -> e.wall

\* The expiry save_session stores: now + lifetime for None, the wall clock of
\* a naive datetime taken as UTC, an aware datetime converted to UTC.
NormaliseExpires(e, t) ==
    CASE e.kind = "none"  -> t + Lifetime
      [] e.kind = "naive" -> e.wall
      [] OTHER            -> e.wall - e.off

\* bool(db_session): a CallbackDict is falsy when it holds no key
IsEmptySession(d) == d = EmptyData

\* ------------------------------------------------------------ initial state
\* UserSession(session_token=sid, user_id=..., expires_at=expires, is_active=True, ...)
NewRow(id, sid, expires, data) ==
    [session_id |-> id, session_token |-> sid, user_id |-> data.user_id,
     is_active |-> TRUE, expires_at |-> expires, session_data |-> data]

\* The database as the migrations and seed_admin leave it: the accounts, no session.
\* The account, audit and grant tables as the migration and the seed leave them:
\* no failed login recorded, no audit row, no grant; nobody calls the services.
\* An account nobody has logged in to: failed_login_attempts 0, last_login
\* NULL (written -1, the clock starts at 0).
FreshAccount == [failed_login_attempts |-> 0, last_login |-> -1]

NoCall == [pc |-> "idle", username |-> None, password |-> None, fault |-> None,
           kind |-> None, loaded |-> FreshAccount,
           a |-> [result |-> None, logs |-> <<>>],
           result |-> None,
           response |-> [error_open |-> FALSE, message |-> "", redirect |-> ""]]

TablesIdle ==
    /\ accounts = [u \in Users |-> FreshAccount]
    /\ auth_logs = <<>>
    /\ call = [r \in Reqs |-> NoCall]
    /\ user_roles = {}
    /\ group_roles = {}

AuthIdle ==
    /\ TablesIdle
    /\ input = None
    /\ output = None

\* No call of AdminService.create_* under way.
NoAdminCall == [pc |-> "idle", kind |-> None, name |-> None, email |-> None,
                is_active |-> FALSE, role_ids |-> {}, group_ids |-> {}, result |-> None]

\* AdminService has created nothing and granted no report.
AdminIdle ==
    /\ entities = <<>>
    /\ admin = [r \in Reqs |-> NoAdminCall]
    /\ report_links = {}
    /\ user_groups = {}

\* The session store before the first request.
StoreIdle ==
    /\ now = 0
    /\ rows = {}
    /\ nextRowId = 1
    /\ users = [u \in Users |-> [present |-> TRUE, is_active |-> TRUE]]
    /\ nextSid = 1
    /\ req = [r \in Reqs |-> IdleReq]
    /\ verified = {}
    /\ loggedOut = {}
    /\ started = 0
    /\ issued = {}

Init ==
    /\ now = 0
    /\ rows = {}
    /\ nextRowId = 1
    /\ users = [u \in Users |-> [present |-> TRUE, is_active |-> TRUE]]
    /\ nextSid = 1
    /\ req = [r \in Reqs |-> IdleReq]
    /\ verified = {}
    /\ loggedOut = {}
    /\ started = 0
    /\ issued = {}
    /\ AuthIdle
    /\ AdminIdle

\* The database after the logins of u1 and of u2, each without cookie: the state
\* Init reaches by two runs of OpenSessionSelect, process_login,
\* SaveSessionSelect, SaveSessionCommit, Teardown.
InitTwoSessions ==
    /\ now = 0
    /\ rows = {NewRow(1, 1, Lifetime, ProfileData("u1", TRUE)),
               NewRow(2, 2, Lifetime, ProfileData("u2", TRUE))}
    /\ nextRowId = 3
    /\ users = [u \in Users |-> [present |-> TRUE, is_active |-> TRUE]]
    /\ nextSid = 3
    /\ req = [r \in Reqs |-> IdleReq]
    /\ verified = {"u1", "u2"}
    /\ loggedOut = {}
    /\ started = 0
    /\ issued = {1, 2}
    /\ AuthIdle
    /\ AdminIdle

\* ------------------------------------------------------------ open_session
\* self._create_session(new=True): a session with a sid never seen before
NewSession(cookie) ==
    [IdleReq EXCEPT !.pc = "handler", !.cookie = cookie, !.sid = nextSid,
                    !.new = TRUE, !.data = FreshData]

\* What open_session finds for a cookie at time t: no usable row ("new"), a
\* stale row to tombstone first ("stale"), or the session of a live row ("loaded")
open_session(table, cookie, t) ==
    LET record == SelectByToken(table, cookie) IN
    IF cookie = 0 \/ record = NoRow
    THEN [kind |-> "new", record |-> NoRow, data |-> EmptyData]
    ELSE IF ~Live(record, t)
    THEN [kind |-> "stale", record |-> record, data |-> EmptyData]
    ELSE [kind |-> "loaded", record |-> record,
          data |-> [record.session_data EXCEPT !.permanent = "yes"]]

\* open_session up to its SELECT and the staleness test
OpenSessionSelect(r, cookie) ==
    /\ req[r].pc = "idle"
    /\ started < MaxRequests
    /\ started' = started + 1
    /\ cookie \in {0, Garbage} \cup issued
    /\ LET o == open_session(rows, cookie, now) IN
         CASE o.kind = "new" ->
                /\ req' = [req EXCEPT ![r] = NewSession(cookie)]
                /\ nextSid' = nextSid + 1
           [] o.kind = "stale" ->
                /\ req' = [req EXCEPT ![r] =
                      [IdleReq EXCEPT !.pc = "open_commit", !.cookie = cookie,
                                      !.record = o.record, !.t = now]]
                /\ UNCHANGED nextSid
           [] OTHER ->
                /\ req' = [req EXCEPT ![r] =
                      [IdleReq EXCEPT !.pc = "handler", !.cookie = cookie,
                                      !.sid = cookie, !.new = FALSE,
                                      !.data = o.data]]
                /\ UNCHANGED nextSid
    /\ UNCHANGED <<now, rows, nextRowId, users, verified, loggedOut, issued>>
    /\ UNCHANGED <<authVars, adminVars>>

\* Variant: a tombstone that leaves expires_at as it was.
OpenAssignedNoExpiry(t) == [is_active |-> FALSE]

\* The attributes open_session assigns to a stale record
OpenAssigned(t) == [is_active |-> FALSE, expires_at |-> t]

\* The request has ended: its response is out and its session object is gone.
Finished(q, resp, outcome) ==
    [IdleReq EXCEPT !.pc = "done", !.cookie = q.cookie, !.sid = q.sid,
                    !.new = q.new, !.resp = resp, !.outcome = outcome]

ErrorResponse == [kind |-> "error", sid |-> 0]
DeletedCookie == [kind |-> "deleted", sid |-> 0]
SetCookie(sid) == [kind |-> "set", sid |-> sid]

\* open_session: commit of the tombstone, then a new session
OpenSessionCommit(r) ==
    /\ req[r].pc = "open_commit"
    /\ LET assigned == OpenAssigned(req[r].t) IN
         IF ~UpdateOk(rows, users, req[r].record, assigned)
         THEN \* the row was deleted meanwhile: the UPDATE matches no row and raises
              /\ req' = [req EXCEPT ![r] = Finished(req[r], ErrorResponse, "open_error")]
              /\ UNCHANGED <<rows, nextSid>>
         ELSE /\ rows' = Updated(rows, req[r].record, assigned)
              /\ req' = [req EXCEPT ![r] =
                    [NewSession(req[r].cookie) EXCEPT !.outcome = "tombstoned"]]
              /\ nextSid' = nextSid + 1
    /\ UNCHANGED <<now, nextRowId, users, verified, loggedOut, started, issued>>
    /\ UNCHANGED <<authVars, adminVars>>

\* ------------------------------------------------------------ AuthService
\* Variant: a check that accepts every password.
AnyPassword(password, u) == TRUE

\* verify_password: bcrypt.checkpw of the password against the stored hash
verify_password(password, u) == password = PasswordOf(u)

LogEntry(username, success, action) ==
    [username |-> username, success |-> success, action |-> action]

authenticateTellsMissing(usrs, username, password, resolverOk) ==
    IF ~(username \in Users /\ usrs[username].present /\ usrs[username].is_active)
    THEN [result |-> "missing", logs |-> <<LogEntry(username, FALSE, "login")>>]
    ELSE IF ~verify_password(password, username)
    THEN [result |-> "none", logs |-> <<LogEntry(username, FALSE, "login")>>]
    ELSE IF ~resolverOk
    THEN [result |-> "raise", logs |-> <<>>]
    ELSE [result |-> "profile", logs |-> <<LogEntry(username, TRUE, "login")>>]

\* authenticate: the result and the AuthLog rows its transaction commits.
\* resolverOk = FALSE: _build_access_profile (its query of the reports) raises,
\* auth_session rolls the transaction back and re-raises.
authenticate(usrs, username, password, resolverOk) ==
    IF ~(username \in Users /\ usrs[username].present /\ usrs[username].is_active)
    THEN [result |-> "none", logs |-> <<LogEntry(username, FALSE, "login")>>]
    ELSE IF ~verify_password(password, username)
    THEN [result |-> "none", logs |-> <<LogEntry(username, FALSE, "login")>>]
    ELSE IF ~resolverOk
    THEN [result |-> "raise", logs |-> <<>>]
    ELSE [result |-> "profile", logs |-> <<LogEntry(username, TRUE, "login")>>]

\* ------------------------------------------------------------ handlers
\* The session after the login callback, given what authenticate returned
LoginSession(q, a, username, remember) ==
    CASE a.result = "none" ->
           [q EXCEPT !.pc = "save", !.logs = a.logs, !.outcome = "login_failed"]
      [] a.result = "raise" ->
           [q EXCEPT !.pc = "save", !.logs = a.logs, !.outcome = "login_error"]
      [] OTHER ->
           [q EXCEPT !.pc = "save", !.logs = a.logs, !.outcome = "login_ok",
                     !.data = ProfileData(username, remember)]

\* process_login: the login callback
process_login(r, username, password, remember, resolverOk) ==
    /\ req[r].pc = "handler"
    /\ IF username = "" \/ password = ""
       THEN req' = [req EXCEPT ![r].pc = "save", ![r].outcome = "login_failed"]
       ELSE req' = [req EXCEPT ![r] =
               LoginSession(req[r], authenticate(users, username, password, resolverOk),
                            username, remember)]
    /\ verified' = IF /\ username \in Users
                      /\ users[username].present /\ users[username].is_active
                      /\ password = PasswordOf(username)
                      /\ resolverOk
                   THEN verified \cup {username} ELSE verified
    /\ UNCHANGED <<now, rows, nextRowId, users, nextSid, loggedOut, started, issued>>
    /\ UNCHANGED <<authVars, adminVars>>

\* render_page and the report callbacks: they read the session only
render_page(r) ==
    /\ req[r].pc = "handler"
    /\ req' = [req EXCEPT ![r].pc = "save", ![r].outcome = "view"]
    /\ UNCHANGED <<now, rows, nextRowId, users, nextSid, verified, loggedOut, started, issued>>
    /\ UNCHANGED <<authVars, adminVars>>

\* handle_logout up to the SELECT of AuthService.logout
handle_logout(r) ==
    /\ req[r].pc = "handler"
    /\ LET record == SelectByToken(rows, req[r].cookie) IN
         IF req[r].cookie = 0
         THEN req' = [req EXCEPT ![r].pc = "save", ![r].outcome = "logout",
                                 ![r].data = EmptyData]
         ELSE IF record = NoRow
         THEN req' = [req EXCEPT ![r].pc = "save", ![r].outcome = "logout",
                                 ![r].data = EmptyData,
                                 ![r].logs = <<LogEntry(None, TRUE, "logout")>>]
         ELSE req' = [req EXCEPT ![r].pc = "logout_commit", ![r].record = record,
                                 ![r].t = now]
    /\ UNCHANGED <<now, rows, nextRowId, users, nextSid, verified, loggedOut, started, issued>>
    /\ UNCHANGED <<authVars, adminVars>>

\* Variant: a logout that only ends the expiry.
LogoutAssignedNoFlag(t) == [expires_at |-> t]

\* The attributes AuthService.logout assigns to the record it found
LogoutAssigned(t) == [is_active |-> FALSE, expires_at |-> t]

\* AuthService.logout: the commit of auth_session, then flask_session.clear()
logout(r) ==
    /\ req[r].pc = "logout_commit"
    /\ LET assigned == LogoutAssigned(req[r].t) IN
         IF UpdateOk(rows, users, req[r].record, assigned)
         THEN /\ rows' = Updated(rows, req[r].record, assigned)
              /\ req' = [req EXCEPT ![r].pc = "save", ![r].outcome = "logout",
                            ![r].data = EmptyData, ![r].record = NoRow, ![r].t = 0,
                            ![r].logs = <<LogEntry(req[r].record.user_id, TRUE, "logout")>>]
         ELSE \* the commit raises: the callback ends before flask_session.clear()
              /\ req' = [req EXCEPT ![r].pc = "save", ![r].outcome = "logout_error",
                            ![r].record = NoRow, ![r].t = 0]
              /\ UNCHANGED rows
    /\ UNCHANGED <<now, nextRowId, users, nextSid, verified, loggedOut, started, issued>>
    /\ UNCHANGED <<authVars, adminVars>>

\* A view that drops the user from the session and keeps its other keys
\* (DatabaseSession.pop("user_id")).
session_pop(r) ==
    /\ req[r].pc = "handler"
    /\ req[r].data.user_id # None
    /\ req' = [req EXCEPT ![r].pc = "save", ![r].outcome = "pop",
                          ![r].data.user_id = None]
    /\ UNCHANGED <<now, rows, nextRowId, users, nextSid, verified, loggedOut, started, issued>>
    /\ UNCHANGED <<authVars, adminVars>>

\* ------------------------------------------------------------ save_session
\* The tokens whose logout request, made with a live session, has completed.
NoteLogout(q, outcome) ==
    IF outcome = "logout" /\ ~q.new THEN loggedOut \cup {q.cookie} ELSE loggedOut

\* The attributes _deactivate_session assigns to the record it found
DeactivateAssigned(t) == [is_active |-> FALSE, expires_at |-> t]

\* Variant: an anonymous save that does not clear is_active.
AnonymousAssignedNoFlag(t, data) == [expires_at |-> t, session_data |-> data]

\* The attributes save_session assigns to the record of a session without user_id
AnonymousAssigned(t, data) ==
    [is_active |-> FALSE, expires_at |-> t, session_data |-> data]

\* Variant: an update that leaves session_data as it was.
UpsertAssignedNoData(expires, data) ==
    [expires_at |-> expires, is_active |-> TRUE, user_id |-> data.user_id]

\* The attributes save_session assigns to the record of a session with a user_id
UpsertAssigned(expires, data) ==
    [session_data |-> data, expires_at |-> expires, is_active |-> TRUE,
     user_id |-> data.user_id]

\* save_session up to its SELECT (for an empty session: the SELECT of
\* _deactivate_session); e is what get_expiration_time returned
SaveSessionSelect(r, e) ==
    /\ req[r].pc = "save"
    /\ e \in ExpiryInputs(req[r].data, now)
    /\ LET q == req[r]
           record == SelectByToken(rows, q.sid) IN
         IF IsEmptySession(q.data)
         THEN IF record = NoRow
              THEN /\ req' = [req EXCEPT ![r] = Finished(q, DeletedCookie, q.outcome)]
                   /\ loggedOut' = NoteLogout(q, q.outcome)
              ELSE /\ req' = [req EXCEPT ![r].pc = "deactivate_commit",
                                         ![r].record = record, ![r].t = now]
                   /\ UNCHANGED loggedOut
         ELSE IF q.data.user_id = None /\ record = NoRow
              THEN /\ req' = [req EXCEPT ![r] =
                         [Finished(q, SetCookie(q.sid), q.outcome) EXCEPT !.new = FALSE]]
                   /\ loggedOut' = NoteLogout(q, q.outcome)
              ELSE /\ req' = [req EXCEPT ![r].pc = "save_commit",
                                         ![r].record = record, ![r].t = now,
                                         ![r].expires = NormaliseExpires(e, now)]
                   /\ UNCHANGED loggedOut
    /\ UNCHANGED <<now, rows, nextRowId, users, nextSid, verified, started, issued>>
    /\ UNCHANGED <<authVars, adminVars>>

\* _deactivate_session: the commit, then response.delete_cookie
DeactivateCommit(r) ==
    /\ req[r].pc = "deactivate_commit"
    /\ LET q == req[r]
           assigned == DeactivateAssigned(q.t) IN
         IF UpdateOk(rows, users, q.record, assigned)
         THEN /\ rows' = Updated(rows, q.record, assigned)
              /\ req' = [req EXCEPT ![r] = Finished(q, DeletedCookie, q.outcome)]
              /\ loggedOut' = NoteLogout(q, q.outcome)
         ELSE /\ req' = [req EXCEPT ![r] = Finished(q, ErrorResponse, "save_error")]
              /\ UNCHANGED <<rows, loggedOut>>
    /\ UNCHANGED <<now, nextRowId, users, nextSid, verified, started, issued>>
    /\ UNCHANGED <<authVars, adminVars>>

\* save_session: the commit (update or insert), then response.set_cookie
SaveSessionCommit(r) ==
    /\ req[r].pc = "save_commit"
    /\ LET q == req[r]
           assigned == IF q.data.user_id = None
                       THEN AnonymousAssigned(q.t, q.data)
                       ELSE UpsertAssigned(q.expires, q.data)
           done == [Finished(q, SetCookie(q.sid), q.outcome) EXCEPT !.new = FALSE]
           failed == Finished(q, ErrorResponse, "save_error") IN
         IF q.record = NoRow
         THEN \* user_id is set here: the INSERT
              IF UniqueTokenOk(rows, q.sid) /\ ForeignKeyOk(users, q.data.user_id)
              THEN /\ rows' = rows \cup {NewRow(nextRowId, q.sid, q.expires, q.data)}
                   /\ nextRowId' = nextRowId + 1
                   /\ req' = [req EXCEPT ![r] = done]
                   /\ loggedOut' = NoteLogout(q, q.outcome)
              ELSE /\ req' = [req EXCEPT ![r] = failed]
                   /\ UNCHANGED <<rows, nextRowId, loggedOut>>
         ELSE IF UpdateOk(rows, users, q.record, assigned)
              THEN /\ rows' = Updated(rows, q.record, assigned)
                   /\ req' = [req EXCEPT ![r] = done]
                   /\ loggedOut' = NoteLogout(q, q.outcome)
                   /\ UNCHANGED nextRowId
              ELSE /\ req' = [req EXCEPT ![r] = failed]
                   /\ UNCHANGED <<rows, nextRowId, loggedOut>>
    /\ UNCHANGED <<now, users, nextSid, verified, started, issued>>
    /\ UNCHANGED <<authVars, adminVars>>

\* The response is sent and the request context is popped.
Teardown(r) ==
    /\ req[r].pc = "done"
    /\ req' = [req EXCEPT ![r] = IdleReq]
    /\ issued' = IF req[r].resp.kind = "set" THEN issued \cup {req[r].resp.sid} ELSE issued
    /\ UNCHANGED <<now, rows, nextRowId, users, nextSid, verified, loggedOut, started>>
    /\ UNCHANGED <<authVars, adminVars>>

\* ------------------------------------------------------------ environment
\* The wall clock advances.
Tick ==
    /\ now < MaxTime
    /\ now' = now + 1
    /\ UNCHANGED <<rows, nextRowId, users, nextSid, req, verified, loggedOut, started, issued>>
    /\ UNCHANGED <<authVars, adminVars>>

\* What a call of the user administration returned: the summary of the user
\* (is_active) or the list, or the exception raised.
UserResult(op, user, include_inactive, error, is_active, listed) ==
    [op |-> op, user |-> user, include_inactive |-> include_inactive, error |-> error,
     is_active |-> is_active, listed |-> listed]

NoUserResult == UserResult(None, None, FALSE, None, FALSE, {})

\* audit.auth_logs.user_id references auth.users without ON DELETE, and the
\* relationship AuthLog.user has no cascade: the DELETE of a user that an audit
\* row names raises IntegrityError
AuthLogForeignKeyOk(logs, id) == ~\E i \in DOMAIN logs : logs[i].user_id = id

\* AdminService.delete_user: the user row goes, and with it its role links,
\* group links and sessions (relationship cascade "all, delete-orphan",
\* ON DELETE CASCADE); an unknown id raises NotFoundError; any exception is
\* rolled back by _session_scope
delete_user(id) ==
    /\ IF ~(id \in Users /\ users[id].present)
       THEN /\ output' = UserResult("delete_user", id, FALSE, "NotFoundError", FALSE, {})
            /\ UNCHANGED <<users, rows, user_roles, user_groups>>
       ELSE IF ~AuthLogForeignKeyOk(auth_logs, id)
       THEN /\ output' = UserResult("delete_user", id, FALSE, "IntegrityError", FALSE, {})
            /\ UNCHANGED <<users, rows, user_roles, user_groups>>
       ELSE /\ users' = [users EXCEPT ![id].present = FALSE]
            /\ rows' = {x \in rows : x.user_id # id}
            /\ user_roles' = {x \in user_roles : x.owner # id}
            /\ user_groups' = {x \in user_groups : x.owner # id}
            /\ output' = UserResult("delete_user", id, FALSE, None, FALSE, {})
    /\ UNCHANGED <<now, nextRowId, nextSid, req, verified, loggedOut, started, issued>>
    /\ UNCHANGED <<accounts, auth_logs, call, group_roles, input>>
    /\ UNCHANGED <<entities, admin, report_links>>

\* ------------------------------------------------------------ specifications
\* The steps of open_session and save_session around a handler.
SessionSteps ==
    \/ \E r \in Reqs : \E c \in {0, Garbage} \cup issued : OpenSessionSelect(r, c)
    \/ \E r \in Reqs : OpenSessionCommit(r)
    \/ \E r \in Reqs : \E e \in ExpiryInputs(req[r].data, now) :
         SaveSessionSelect(r, e)
    \/ \E r \in Reqs : DeactivateCommit(r)
    \/ \E r \in Reqs : Teardown(r)

\* The callbacks of the application.
Handlers ==
    \/ \E r \in Reqs : \E u \in Users \cup {"nobody", ""} :
         \E p \in Passwords \cup {""} : \E rem \in RememberInputs : \E ok \in BOOLEAN :
            process_login(r, u, p, rem, ok)
    \/ \E r \in Reqs : render_page(r)
    \/ \E r \in Reqs : handle_logout(r)
    \/ \E r \in Reqs : logout(r)

\* The requests of the clients, each step of each of them at any time.
Next ==
    \/ SessionSteps
    \/ Handlers
    \/ \E r \in Reqs : SaveSessionCommit(r)
    \/ Tick

Spec == Init /\ [][Next]_vars

\* The requests, and an administrator who deletes users meanwhile.
NextCascade ==
    \/ SessionSteps
    \/ Handlers
    \/ \E r \in Reqs : SaveSessionCommit(r)
    \/ \E u \in Users : delete_user(u)

SpecCascade == Init /\ [][NextCascade]_vars

\* The session interface driven by any view: the handlers above and one that
\* leaves a session with data but without user_id.
NextStore == Next \/ \E r \in Reqs : session_pop(r)

SpecStore == Init /\ [][NextStore]_vars

\* Logout requests only: every call that touches a row deactivates it
\* (open_session's tombstone, AuthService.logout, _deactivate_session).
NextDeactivate ==
    \/ SessionSteps
    \/ \E r \in Reqs : handle_logout(r)
    \/ \E r \in Reqs : logout(r)
    \/ Tick

SpecDeactivate == InitTwoSessions /\ [][NextDeactivate]_vars

\* ------------------------------------------------------------ AuthService.authenticate
\* Number of audit rows one run may write.
MaxLogins == 2

\* The usernames a caller submits: the accounts and one that does not exist.
Usernames == Users \cup {"nobody"}

\* What the storage may do to one call: nothing, or an error raised by the
\* SELECT of the user, by the INSERT of the AuthLog row, by the report query of
\* _build_access_profile, or by COMMIT.
Faults == {"none", "lookup", "log", "reports", "commit"}

\* The two tests of authenticate on the loaded user: "missing" (no row, or
\* is_active false), "wrong" (verify_password fails), "ok"
Credentials(usrs, username, password) ==
    IF ~(username \in Users /\ usrs[username].present /\ usrs[username].is_active)
    THEN "missing"
    ELSE IF ~verify_password(password, username) THEN "wrong" ELSE "ok"

\* _log_auth: AuthLog(user_id=user.user_id if user else None, username=..., ...)
AuthLogRow(entry, usrs) ==
    [username |-> entry.username, success |-> entry.success, action |-> entry.action,
     user_id |-> IF entry.username \in Users /\ usrs[entry.username].present
                 THEN entry.username ELSE None]

WrongPasswordKeepsCount(loaded) ==
    [failed_login_attempts |-> loaded.failed_login_attempts]

\* user.failed_login_attempts += 1
WrongPasswordAssigned(loaded) ==
    [failed_login_attempts |-> loaded.failed_login_attempts + 1]

\* user.failed_login_attempts = 0; user.last_login = datetime.now(timezone.utc)
SuccessAssigned(t) == [failed_login_attempts |-> 0, last_login |-> t]

\* The attributes authenticate assigns to the loaded user
AccountAssigned(kind, loaded, t) ==
    CASE kind = "wrong" -> WrongPasswordAssigned(loaded)
      [] kind = "ok" -> SuccessAssigned(t)
      [] OTHER -> <<>>

\* What process_login returns for the result of authenticate: the error flag,
\* the message and the redirect (an exception leaves the callback unanswered).
LoginResponse(result) ==
    CASE result = "none" ->
           [error_open |-> TRUE, message |-> "invalid credentials",
            redirect |-> "no_update"]
      [] result = "profile" ->
           [error_open |-> FALSE, message |-> "", redirect |-> "/"]
      [] OTHER ->
           [error_open |-> FALSE, message |-> "exception", redirect |-> "exception"]

\* authenticate up to the end of its in-memory work: the SELECT of the user,
\* the two tests, the assignments and session.add(AuthLog).  Nothing is sent to
\* the database before the flush.
AuthenticateSelect(r, username, password, fault) ==
    /\ call[r].pc # "commit"
    /\ Len(auth_logs) + Cardinality({q \in Reqs : call[q].pc = "commit"}) < MaxLogins
    /\ IF fault = "lookup"
       THEN call' = [call EXCEPT ![r] =
               [pc |-> "done", username |-> username, password |-> password,
                fault |-> fault, kind |-> "none", loaded |-> FreshAccount,
                a |-> [result |-> "raise", logs |-> <<>>],
                result |-> "raise", response |-> LoginResponse("raise")]]
       ELSE call' = [call EXCEPT ![r] =
               [pc |-> "commit", username |-> username, password |-> password,
                fault |-> fault,
                kind |-> Credentials(users, username, password),
                loaded |-> IF username \in Users THEN accounts[username]
                           ELSE FreshAccount,
                a |-> authenticate(users, username, password, fault # "reports"),
                result |-> None, response |-> NoCall.response]]
    /\ UNCHANGED <<accounts, auth_logs, user_roles, group_roles, input, output>>
    /\ UNCHANGED <<storeVars, adminVars>>

\* Whether an exception leaves the body of "with auth_session(...)" or its
\* flush and COMMIT: the report query, the INSERT of the AuthLog row or COMMIT
\* raised.  No statement of authenticate or _log_auth catches it.
Raised(c) == c.a.result = "raise" \/ c.fault \in {"log", "commit"}

ExitResultSwallows(c) == IF Raised(c) THEN "none" ELSE c.a.result

\* auth_session: "except Exception: session.rollback(); raise", else the value
\* the body returned
ExitResult(c) == IF Raised(c) THEN "raise" ELSE c.a.result

\* The exit of "with auth_session(...)": flush (INSERT of the AuthLog row,
\* UPDATE of the user) and COMMIT, or on any exception rollback and re-raise.
AuthenticateCommit(r) ==
    LET c == call[r]
        result == ExitResult(c)
    IN  /\ c.pc = "commit"
        /\ IF Raised(c)
           THEN UNCHANGED <<accounts, auth_logs>>
           ELSE /\ auth_logs' = auth_logs \o
                       [i \in 1..Len(c.a.logs) |-> AuthLogRow(c.a.logs[i], users)]
                /\ accounts' =
                       IF c.kind = "missing" THEN accounts
                       ELSE [accounts EXCEPT ![c.username] =
                               Flush(@, c.loaded, AccountAssigned(c.kind, c.loaded, now))]
        /\ call' = [call EXCEPT ![r] =
                [c EXCEPT !.pc = "done", !.result = result,
                          !.response = LoginResponse(result)]]
        /\ UNCHANGED <<user_roles, group_roles, input, output>>
        /\ UNCHANGED <<storeVars, adminVars>>

\* The accounts: u1 active, u2 active or deactivated; both hold a session.
InitAuth ==
    /\ now = 0
    /\ rows = {NewRow(1, 1, Lifetime, ProfileData("u1", TRUE)),
               NewRow(2, 2, Lifetime, ProfileData("u2", TRUE))}
    /\ nextRowId = 3
    /\ users \in {[u \in Users |-> [present |-> TRUE, is_active |-> u = "u1" \/ b]] :
                    b \in BOOLEAN}
    /\ nextSid = 3
    /\ req = [r \in Reqs |-> IdleReq]
    /\ verified = {"u1", "u2"}
    /\ loggedOut = {}
    /\ started = 0
    /\ issued = {1, 2}
    /\ AuthIdle
    /\ AdminIdle

\* Callers of authenticate, concurrently, with any credentials and any fault.
NextAuth ==
    \/ \E r \in Reqs : \E u \in Usernames : \E p \in Passwords : \E f \in Faults :
          AuthenticateSelect(r, u, p, f)
    \/ \E r \in Reqs : AuthenticateCommit(r)

SpecAuth == InitAuth /\ [][NextAuth]_vars

\* ------------------------------------------------------------ combine_permission_maps
\* Number of permission maps in one call, and length of an action list.
MaxMaps == 2
MaxActions == 2

Resources == {"reports", "admin"}

\* The action names by their rank in the order sorted() puts strings in:
\* the empty string (falsy), then "read", then "write".
Blank == 0
Actions == {Blank, 1, 2}

ActionLists == UNION {[1..n -> Actions] : n \in 0..MaxActions}

\* role.permissions: None, or a dict from some resources to action lists
PermissionMaps ==
    {[none |-> TRUE, items |-> <<>>]} \cup
    {[none |-> FALSE, items |-> m] :
        m \in UNION {[D -> ActionLists] : D \in SUBSET Resources}}

PermissionInputs == UNION {[1..n -> PermissionMaps] : n \in 0..MaxMaps}

\* sorted(actions) of a set
RECURSIVE sorted(_)
sorted(S) ==
    IF S = {} THEN <<>>
    ELSE LET m == CHOOSE x \in S : \A y \in S : x <= y
         IN  <<m>> \o sorted(S \ {m})

\* "if not mapping: continue": None and the empty dict
SkippedMap(mapping) == mapping.none \/ DOMAIN mapping.items = {}

\* The resources of a mapping the loop reaches combined[resource] for:
\* those whose action list is not empty ("if not actions: continue")
Touched(mapping) == {r \in DOMAIN mapping.items : mapping.items[r] # <<>>}

\* combined after one more mapping: combined[resource] creates the entry of the
\* defaultdict(set), update() adds the actions that are truthy
MergeOne(combined, mapping) ==
    IF SkippedMap(mapping) THEN combined
    ELSE [r \in DOMAIN combined \cup Touched(mapping) |->
            (IF r \in DOMAIN combined THEN combined[r] ELSE {}) \cup
            (IF r \in Touched(mapping)
             THEN {mapping.items[r][i] : i \in DOMAIN mapping.items[r]} \ {Blank}
             ELSE {})]

\* combined after the first n mappings
RECURSIVE MergeAll(_, _)
MergeAll(maps, n) ==
    IF n = 0 THEN <<>> ELSE MergeOne(MergeAll(maps, n - 1), maps[n])

\* {resource: sorted(actions) for resource, actions in combined.items()}
combine_permission_maps(maps) ==
    LET combined == MergeAll(maps, Len(maps))
    IN  [r \in DOMAIN combined |-> sorted(combined[r])]

NoOutput == [done |-> FALSE, value |-> <<>>]

\* One call of combine_permission_maps on the maps drawn
CombinePermissionMaps ==
    /\ ~output.done
    /\ output' = [done |-> TRUE, value |-> combine_permission_maps(input)]
    /\ UNCHANGED <<accounts, auth_logs, call, user_roles, group_roles, input>>
    /\ UNCHANGED <<storeVars, adminVars>>

InitPerm ==
    /\ StoreIdle
    /\ AdminIdle
    /\ TablesIdle
    /\ input \in PermissionInputs
    /\ output = NoOutput

NextPerm == CombinePermissionMaps

SpecPerm == InitPerm /\ [][NextPerm]_vars

\* ------------------------------------------------------------ _build_access_profile
\* The rows of auth.roles (by role_id), auth.groups and auth.reports (by
\* group_name and report_code, which are unique).
Roles == {1, 2}

\* role_name of the rows: the second role is viewer, the first admin or editor.
RoleNames == {(1 :> "admin") @@ (2 :> "viewer"), (1 :> "editor") @@ (2 :> "viewer")}
Groups == {"analysts"}
Reports == {"deals", "sales"}

\* The place of a name in the order sorted() puts strings in.
Rank(x) ==
    CASE x = "Sales" -> 1
      [] x = "admin" -> 2
      [] x = "analysts" -> 3
      [] x = "deals" -> 4
      [] x = "editor" -> 5
      [] x = "sales" -> 6
      [] x = "viewer" -> 7

\* sorted(names) of a set of names
sorted_names(S) ==
    LET ranks == sorted({Rank(x) : x \in S})
    IN  [i \in DOMAIN ranks |-> CHOOSE x \in S : Rank(x) = ranks[i]]

\* role.permissions of the two roles
role_permissions(role) ==
    IF role = 1
    THEN [none |-> FALSE, items |-> ("admin" :> <<2, 1>>) @@ ("reports" :> <<1>>)]
    ELSE [none |-> FALSE, items |-> ("reports" :> <<2>>)]

\* The tuple a report is listed with; the report "deals" has no report_name.
ReportRow(code) ==
    [code |-> code,
     name |-> IF code = "sales" THEN "Sales" ELSE None,
     route_path |-> IF code = "sales" THEN "/sales" ELSE "/deals"]

\* A row of auth.role_reports for a role and a report: absent, can_view true,
\* or can_view false.
GrantKinds == {"none", "view", "hidden"}

\* The database the resolver reads: the is_active flags, the roles and groups
\* of the user (auth.user_roles, auth.user_groups), the roles of the groups
\* (auth.group_roles) and the report grants of the roles (auth.role_reports).
Graphs ==
    [role_name : RoleNames,
     role_active : [Roles -> BOOLEAN],
     group_active : [Groups -> BOOLEAN],
     report_active : [Reports -> BOOLEAN],
     user_roles : SUBSET Roles,
     user_groups : SUBSET Groups,
     group_roles : [Groups -> SUBSET Roles],
     grants : [Roles \X Reports -> GrantKinds]]

\* role.report_assignments, and role.reports (the same rows through the
\* secondary table)
report_assignments(g, role) == {rep \in Reports : g.grants[<<role, rep>>] # "none"}
role_reports(g, role) == {rep \in Reports : g.grants[<<role, rep>>] # "none"}

\* report_map.setdefault(report.report_code, {...})
SetDefault(report_map, code) ==
    IF code \in DOMAIN report_map THEN report_map
    ELSE report_map @@ (code :> ReportRow(code))

RECURSIVE SetDefaultAll(_, _)
SetDefaultAll(report_map, codes) ==
    IF codes = {} THEN report_map
    ELSE LET code == CHOOSE c \in codes : \A d \in codes : Rank(c) <= Rank(d)
         IN  SetDefaultAll(SetDefault(report_map, code), codes \ {code})

ViewableIgnoresCanView(g, role) ==
    {rep \in report_assignments(g, role) : g.report_active[rep]}

\* The reports the first loop of _collect_reports adds: can_view and active
Viewable(g, role) ==
    {rep \in report_assignments(g, role) :
        g.grants[<<role, rep>>] = "view" /\ g.report_active[rep]}

\* _collect_reports: the assignments, or, when the role has none, role.reports
collect_reports(g, role, report_map) ==
    LET handled == report_assignments(g, role) # {}
    IN  IF handled
        THEN SetDefaultAll(report_map, Viewable(g, role))
        ELSE SetDefaultAll(report_map,
                           {rep \in role_reports(g, role) : g.report_active[rep]})

DirectRolesIgnoreActive(g) == g.user_roles

\* "for role in user.roles: if not role.is_active: continue"
DirectRoles(g) == {role \in g.user_roles : g.role_active[role]}

\* "for group in user.groups: if not group.is_active: continue"
ActiveGroups(g) == {group \in g.user_groups : g.group_active[group]}

\* The roles both loops collect, in the order they collect them (a
\* relationship is loaded in the order of the primary key)
RECURSIVE GroupRoles(_, _, _)
GroupRoles(g, groups, n) ==
    IF n = 0 THEN <<>>
    ELSE GroupRoles(g, groups, n - 1) \o
         sorted({role \in g.group_roles[groups[n]] : g.role_active[role]})

CollectedRoles(g) ==
    sorted(DirectRoles(g)) \o
    GroupRoles(g, sorted_names(ActiveGroups(g)), Cardinality(ActiveGroups(g)))

\* report_map after the first n collected roles
RECURSIVE CollectAll(_, _, _)
CollectAll(g, roles, n) ==
    IF n = 0 THEN <<>>
    ELSE collect_reports(g, roles[n], CollectAll(g, roles, n - 1))

\* The user was loaded by authenticate's own SELECT: inspect(user).session is
\* that session.
SessionInputs == {TRUE}

AllReportsNothing(g, has_session, role_names, report_map) == report_map

\* if "admin" in role_names: every active report, by setdefault
AllReports(g, has_session, role_names, report_map) ==
    IF "admin" \in role_names /\ has_session
    THEN SetDefaultAll(report_map, {rep \in Reports : g.report_active[rep]})
    ELSE report_map

\* item["name"] or item["code"]
SortKey(item) == IF item.name = None THEN item.code ELSE item.name

\* sorted(report_map.values(), key=...)
sorted_reports(report_map) ==
    LET keys == sorted({Rank(SortKey(report_map[c])) : c \in DOMAIN report_map})
    IN  [i \in DOMAIN keys |->
            report_map[CHOOSE c \in DOMAIN report_map :
                           Rank(SortKey(report_map[c])) = keys[i]]]

build_access_profile(g, has_session) ==
    LET roles == CollectedRoles(g)
        role_names == {g.role_name[roles[i]] : i \in DOMAIN roles}
        report_map == AllReports(g, has_session, role_names,
                                 CollectAll(g, roles, Len(roles)))
    IN  [roles |-> sorted_names(role_names),
         groups |-> sorted_names(ActiveGroups(g)),
         permissions |->
            combine_permission_maps([i \in DOMAIN roles |-> role_permissions(roles[i])]),
         reports |-> sorted_reports(report_map)]

\* AdminService._to_role_summary: the report codes of the summary
to_role_summary(g, role, has_session) ==
    LET handled == report_assignments(g, role) # {}
        granted == IF handled THEN Viewable(g, role)
                   ELSE {rep \in role_reports(g, role) : g.report_active[rep]}
        all == IF g.role_name[role] = "admin" /\ has_session
               THEN {rep \in Reports : g.report_active[rep]} ELSE {}
    IN  sorted_names(granted \cup all)

NoProfile ==
    [done |-> FALSE, roles |-> <<>>, groups |-> <<>>, permissions |-> <<>>,
     reports |-> <<>>, summarised |-> FALSE, summary |-> [role \in Roles |-> <<>>]]

\* authenticate resolves the profile of the user it loaded
BuildAccessProfile ==
    /\ ~output.done
    /\ \E s \in SessionInputs :
         LET p == build_access_profile(input, s) IN
         output' = [output EXCEPT !.done = TRUE, !.roles = p.roles, !.groups = p.groups,
                                  !.permissions = p.permissions, !.reports = p.reports]
    /\ UNCHANGED <<accounts, auth_logs, call, user_roles, group_roles, input>>
    /\ UNCHANGED <<storeVars, adminVars>>

\* list_roles: the summary of every role
ListRoles ==
    /\ ~output.summarised
    /\ \E s \in SessionInputs :
         output' = [output EXCEPT !.summarised = TRUE,
                       !.summary = [role \in Roles |-> to_role_summary(input, role, s)]]
    /\ UNCHANGED <<accounts, auth_logs, call, user_roles, group_roles, input>>
    /\ UNCHANGED <<storeVars, adminVars>>

InitProfile ==
    /\ StoreIdle
    /\ AdminIdle
    /\ TablesIdle
    /\ input \in Graphs
    /\ output = NoProfile

NextProfile == BuildAccessProfile \/ ListRoles

SpecProfile == InitProfile /\ [][NextProfile]_vars

\* ------------------------------------------------------------ AdminService grants
\* The role ids an administrator submits: the roles and one that does not exist.
RoleIdInputs == Roles \cup {0}

\* The roles table the grant calls read: role_name and is_active of each role.
RoleTables == [role_name : RoleNames, role_active : [Roles -> BOOLEAN]]

\* The serial behind user_role_id and group_role_id.
NextGrantId(table) ==
    IF table = {} THEN 1
    ELSE (CHOOSE n \in {x.id : x \in table} : \A y \in table : y.id <= n) + 1

NeverInRoles(table, owner, role) == FALSE

\* "role in user.roles" / "role in group.roles": a row links owner and role
InRoles(table, owner, role) ==
    \E x \in table : x.owner = owner /\ x.role_id = role

\* uq_user_role / uq_group_role: the INSERT of a second row for the pair
\* raises IntegrityError
UniqueGrantOk(table, owner, role) ==
    ~\E x \in table : x.owner = owner /\ x.role_id = role

\* _to_user_summary / _to_group_summary: the names of the active roles of the
\* owner and the ids of all its roles, both as sorted sets
to_summary(g, table, op, owner, role) ==
    LET roles == {x.role_id : x \in {y \in table : y.owner = owner}}
    IN  [op |-> op, ok |-> TRUE, error |-> None, owner |-> owner, role |-> role,
         appended |-> FALSE,
         roles |-> sorted_names({g.role_name[r] : r \in {q \in roles : g.role_active[q]}}),
         role_ids |-> sorted(roles)]

\* The call left through an exception; _session_scope has rolled back.
Failure(op, owner, role, error) ==
    [op |-> op, ok |-> FALSE, error |-> error, owner |-> owner, role |-> role,
     appended |-> FALSE, roles |-> <<>>, role_ids |-> <<>>]

NoSummary == Failure(None, None, 0, None)

\* The body shared by assign_role_to_user and assign_role_to_group: the table
\* and the value returned (or the exception raised) after the call; appended
\* tells whether the call took the branch "user.roles.append(role)"
Assign(g, table, op, found, owner, role) ==
    IF ~found \/ role \notin Roles
    THEN [table |-> table, out |-> Failure(op, owner, role, "NotFoundError")]
    ELSE IF InRoles(table, owner, role)
    THEN [table |-> table, out |-> to_summary(g, table, op, owner, role)]
    ELSE IF ~UniqueGrantOk(table, owner, role)
    THEN [table |-> table, out |-> Failure(op, owner, role, "IntegrityError")]
    ELSE LET added == table \cup {[id |-> NextGrantId(table), owner |-> owner,
                                   role_id |-> role]}
         IN  [table |-> added,
              out |-> [to_summary(g, added, op, owner, role) EXCEPT !.appended = TRUE]]

assign_role_to_user(u, role) ==
    /\ LET a == Assign(input, user_roles, "user", u \in Users /\ users[u].present, u, role)
       IN  /\ user_roles' = a.table
           /\ output' = a.out
    /\ UNCHANGED <<accounts, auth_logs, call, group_roles, input>>
    /\ UNCHANGED <<storeVars, adminVars>>

assign_role_to_group(group, role) ==
    /\ LET a == Assign(input, group_roles, "group", group \in Groups, group, role)
       IN  /\ group_roles' = a.table
           /\ output' = a.out
    /\ UNCHANGED <<accounts, auth_logs, call, user_roles, input>>
    /\ UNCHANGED <<storeVars, adminVars>>

InitGrants ==
    /\ StoreIdle
    /\ AdminIdle
    /\ accounts = [u \in Users |-> FreshAccount]
    /\ auth_logs = <<>>
    /\ call = [r \in Reqs |-> NoCall]
    /\ user_roles = {}
    /\ group_roles = {}
    /\ input \in RoleTables
    /\ output = NoSummary

\* An administrator grants roles, one call after the other.
NextGrants ==
    \/ \E u \in Usernames : \E role \in RoleIdInputs : assign_role_to_user(u, role)
    \/ \E group \in Groups \cup {"nobody"} : \E role \in RoleIdInputs :
          assign_role_to_group(group, role)

SpecGrants == InitGrants /\ [][NextGrants]_vars

\* ------------------------------------------------------------ AdminService create_*
\* The rows the tables hold at most, and the names and emails submitted.
MaxEntities == 2
Kinds == {"role", "group", "user"}
Names == {"ops", "dev"}
Emails == {"o@x", "d@x"}
ActiveInputs == BOOLEAN

\* A row of roles, groups or users: its unique columns and is_active (roles
\* and groups have no email).
EntityRow(kind, name, email, is_active) ==
    [kind |-> kind, name |-> name, email |-> email, is_active |-> is_active]

\* _role_exists, _group_exists: a row of the table has the name, whatever its
\* is_active;  _user_exists: a row has the username or the email
name_exists(table, kind, name, email) ==
    \E i \in DOMAIN table :
        /\ table[i].kind = kind
        /\ \/ table[i].name = name
           \/ kind = "user" /\ table[i].email = email

\* UNIQUE on roles.role_name, groups.group_name, users.username, users.email:
\* the INSERT of a second row with the value raises IntegrityError
UniqueNameOk(table, kind, name, email) ==
    ~\E i \in DOMAIN table :
        /\ table[i].kind = kind
        /\ \/ table[i].name = name
           \/ kind = "user" /\ table[i].email = email

DuplicateError(kind) ==
    CASE kind = "role" -> "DuplicateRoleError"
      [] kind = "group" -> "DuplicateGroupError"
      [] kind = "user" -> "DuplicateUserError"

\* The role_ids of a payload, with and without an id that no role has, and the
\* group_ids: none, or the id of no group.  An empty list attaches nothing.
RoleIdSets == {{1}, {0, 1}}
GroupIdSets == {{}, {"nobody"}}

\* _load_roles, _load_groups: the rows with the ids are selected, and
\* "len(roles) != len(set(role_ids))" raises NotFoundError
RolesLoaded(role_ids) == role_ids \subseteq Roles

GroupsLoaded(table, group_ids) ==
    \A id \in group_ids :
        \E i \in DOMAIN table : table[i].kind = "group" /\ table[i].name = id

\* A row of auth.user_groups.
UserGroup(id, owner, group) == [id |-> id, owner |-> owner, group_id |-> group]

\* The UserRole or GroupRole rows that link an owner to the roles, inserted
\* into the table one after the other.
RECURSIVE RoleLinks(_, _, _)
RoleLinks(table, owner, role_ids) ==
    IF role_ids = {} THEN table
    ELSE LET role == CHOOSE x \in role_ids : \A y \in role_ids : x <= y
         IN  RoleLinks(table \cup {[id |-> NextGrantId(table), owner |-> owner,
                                    role_id |-> role]},
                       owner, role_ids \ {role})

RECURSIVE GroupLinks(_, _, _)
GroupLinks(table, owner, group_ids) ==
    IF group_ids = {} THEN table
    ELSE LET group == CHOOSE x \in group_ids : TRUE
         IN  GroupLinks(table \cup {UserGroup(NextGrantId(table), owner, group)},
                        owner, group_ids \ {group})

\* The calls between their SELECT and their flush.
Flushing == {r \in Reqs : admin[r].pc = "flush"}

\* create_role, create_group, create_user up to session.add: the SELECT of the
\* exists check, where a name in use raises the Duplicate*Error of the table,
\* and the SELECTs of _attach_roles, _attach_groups and _load_roles, where an
\* unknown id raises NotFoundError; _session_scope rolls back a transaction
\* that has written nothing
CreateSelect(r, kind, name, email, is_active, role_ids, group_ids) ==
    /\ admin[r].pc = "idle"
    /\ Len(entities) + Cardinality(Flushing) < MaxEntities
    /\ LET c == [pc |-> "idle", kind |-> kind, name |-> name, email |-> email,
                 is_active |-> is_active, role_ids |-> role_ids,
                 group_ids |-> group_ids, result |-> None]
       IN  admin' = [admin EXCEPT ![r] =
              IF name_exists(entities, kind, name, email)
              THEN [c EXCEPT !.result = DuplicateError(kind)]
              ELSE IF ~RolesLoaded(role_ids) \/ ~GroupsLoaded(entities, group_ids)
              THEN [c EXCEPT !.result = "NotFoundError"]
              ELSE [c EXCEPT !.pc = "flush"]]
    /\ UNCHANGED <<entities, report_links, user_groups>>
    /\ UNCHANGED <<storeVars, authVars>>

create_role(r, name, is_active) ==
    CreateSelect(r, "role", name, None, is_active, {}, {})

create_group(r, name, is_active, role_ids) ==
    CreateSelect(r, "group", name, None, is_active, role_ids, {})

create_user(r, name, email, is_active, role_ids, group_ids) ==
    CreateSelect(r, "user", name, email, is_active, role_ids, group_ids)

\* session.flush() and the commit of _session_scope: the INSERT of the row and
\* of its links; the unique index lets it through or raises IntegrityError,
\* which no create_* catches and _session_scope re-raises after the rollback
CreateFlush(r) ==
    /\ admin[r].pc = "flush"
    /\ LET c == admin[r]
           ok == UniqueNameOk(entities, c.kind, c.name, c.email)
       IN  /\ entities' = IF ok
                          THEN Append(entities, EntityRow(c.kind, c.name, c.email, c.is_active))
                          ELSE entities
           /\ user_roles' = IF ok /\ c.kind = "user"
                            THEN RoleLinks(user_roles, c.name, c.role_ids) ELSE user_roles
           /\ group_roles' = IF ok /\ c.kind = "group"
                             THEN RoleLinks(group_roles, c.name, c.role_ids) ELSE group_roles
           /\ user_groups' = IF ok /\ c.kind = "user"
                             THEN GroupLinks(user_groups, c.name, c.group_ids) ELSE user_groups
           /\ admin' = [admin EXCEPT ![r].pc = "idle",
                                     ![r].result = IF ok THEN "ok" ELSE "IntegrityError"]
    /\ UNCHANGED report_links
    /\ UNCHANGED <<accounts, auth_logs, call, input, output>>
    /\ UNCHANGED storeVars

\* The tables hold nothing or one row, active or not.
InitCreate ==
    /\ StoreIdle
    /\ AuthIdle
    /\ admin = [r \in Reqs |-> NoAdminCall]
    /\ report_links = {}
    /\ user_groups = {}
    /\ entities \in {<<>>} \cup {<<EntityRow("role", "ops", None, a)>> : a \in BOOLEAN}

\* Two administrators create roles, groups and users at the same time.
NextCreate ==
    \/ \E r \in Reqs : \E name \in Names : \E a \in ActiveInputs : create_role(r, name, a)
    \/ \E r \in Reqs : \E name \in Names : \E a \in ActiveInputs : \E role_ids \in RoleIdSets :
          create_group(r, name, a, role_ids)
    \/ \E r \in Reqs : \E name \in Names : \E email \in Emails : \E a \in ActiveInputs :
          \E group_ids \in GroupIdSets :
             create_user(r, name, email, a, {}, group_ids)
    \/ \E r \in Reqs : CreateFlush(r)

SpecCreate == InitCreate /\ [][NextCreate]_vars

\* ------------------------------------------------------------ AdminService report grants
\* The report ids an administrator submits: the reports and one that does not
\* exist.
ReportIdInputs == Reports \cup {"nobody"}
CanViewInputs == BOOLEAN

\* The roles and reports the grant calls read: role_name and is_active of the
\* roles, is_active of the reports; no user and no group takes part.
ReportTables ==
    [role_name : RoleNames,
     role_active : [Roles -> BOOLEAN],
     group_active : {[group \in Groups |-> TRUE]},
     report_active : [Reports -> BOOLEAN],
     user_roles : {{}},
     user_groups : {{}},
     group_roles : {[group \in Groups |-> {}]},
     grants : {[p \in Roles \X Reports |-> "none"]}]

RoleReport(role, report, can_view) ==
    [role_id |-> role, report_id |-> report, can_view |-> can_view]

\* role.report_assignments filtered by report_id
links_of(table, role, report) ==
    {x \in table : x.role_id = role /\ x.report_id = report}

\* The tables as the summary reads them after the flush and the refresh.
Refreshed(g, table) ==
    [g EXCEPT !.grants = [p \in Roles \X Reports |->
        IF links_of(table, p[1], p[2]) = {} THEN "none"
        ELSE IF \E x \in links_of(table, p[1], p[2]) : x.can_view THEN "view"
        ELSE "hidden"]]

SetCanViewAppends(table, role, report, can_view) ==
    table \cup {RoleReport(role, report, can_view)}

\* "existing.can_view = bool(can_view)": the UPDATE of the row of the pair
SetCanView(table, role, report, can_view) ==
    (table \ links_of(table, role, report)) \cup {RoleReport(role, report, can_view)}

\* The RoleSummary returned, or the exception raised.
report_summary(g, table, op, role, report, can_view) ==
    [op |-> op, ok |-> TRUE, error |-> None, role |-> role, report |-> report,
     can_view |-> can_view, reports |-> to_role_summary(Refreshed(g, table), role, TRUE)]

ReportFailure(op, role, report, can_view, error) ==
    [op |-> op, ok |-> FALSE, error |-> error, role |-> role, report |-> report,
     can_view |-> can_view, reports |-> <<>>]

NoReportSummary == ReportFailure(None, 0, None, FALSE, None)

assign_report_to_role(role, report, can_view) ==
    /\ IF role \notin Roles \/ report \notin Reports
       THEN /\ output' = ReportFailure("assign", role, report, can_view, "NotFoundError")
            /\ UNCHANGED report_links
       ELSE /\ report_links' =
                  IF links_of(report_links, role, report) # {}
                  THEN SetCanView(report_links, role, report, can_view)
                  ELSE report_links \cup {RoleReport(role, report, can_view)}
            /\ output' = report_summary(input, report_links', "assign", role, report, can_view)
    /\ UNCHANGED <<entities, admin, user_groups>>
    /\ UNCHANGED <<accounts, auth_logs, call, user_roles, group_roles, input>>
    /\ UNCHANGED storeVars

remove_report_from_role(role, report) ==
    /\ IF role \notin Roles \/ links_of(report_links, role, report) = {}
       THEN /\ output' = ReportFailure("remove", role, report, FALSE, "NotFoundError")
            /\ UNCHANGED report_links
       ELSE /\ report_links' = report_links \ links_of(report_links, role, report)
            /\ output' = report_summary(input, report_links', "remove", role, report, FALSE)
    /\ UNCHANGED <<entities, admin, user_groups>>
    /\ UNCHANGED <<accounts, auth_logs, call, user_roles, group_roles, input>>
    /\ UNCHANGED storeVars

InitReports ==
    /\ StoreIdle
    /\ TablesIdle
    /\ entities = <<>>
    /\ admin = [r \in Reqs |-> NoAdminCall]
    /\ report_links = {}
    /\ user_groups = {}
    /\ input \in ReportTables
    /\ output = NoReportSummary

\* An administrator grants and removes reports, one call after the other.
NextReports ==
    \/ \E role \in RoleIdInputs : \E report \in ReportIdInputs : \E can_view \in CanViewInputs :
          assign_report_to_role(role, report, can_view)
    \/ \E role \in RoleIdInputs : \E report \in ReportIdInputs :
          remove_report_from_role(role, report)

SpecReports == InitReports /\ [][NextReports]_vars

\* ------------------------------------------------------------ AuthService.hash_password
MAX_PASSWORD_BYTES == 72

\* The passwords submitted: up to MaxFill letters "a" followed by up to MaxTail
\* characters, each a code point that UTF-8 encodes in one, two, three or four
\* bytes ("a", "é", "€", U+1F600).
MaxFill == 73
MaxTail == 2
CodePoints == {97, 233, 8364, 128512}

Fill(n) == [i \in 1..n |-> 97]

Tails == UNION {[1..n -> CodePoints] : n \in 0..MaxTail}

PlainPasswords == {Fill(n) \o t : n \in 0..MaxFill, t \in Tails}

\* The bytes UTF-8 gives one code point
Utf8(cp) ==
    IF cp < 128 THEN <<cp>>
    ELSE IF cp < 2048 THEN <<192 + (cp \div 64), 128 + (cp % 64)>>
    ELSE IF cp < 65536
    THEN <<224 + (cp \div 4096), 128 + ((cp \div 64) % 64), 128 + (cp % 64)>>
    ELSE <<240 + (cp \div 262144), 128 + ((cp \div 4096) % 64),
           128 + ((cp \div 64) % 64), 128 + (cp % 64)>>

\* plain_password.encode("utf-8")
RECURSIVE encode(_)
encode(password) ==
    IF password = <<>> THEN <<>>
    ELSE Utf8(Head(password)) \o encode(Tail(password))

\* bcrypt.hashpw(password_bytes, salt): the digest of the bytes it is given
hashpw(password_bytes) == [raised |-> FALSE, error |-> None, hashed |-> password_bytes]

hash_password_truncating(plain_password) ==
    LET password_bytes == encode(plain_password)
    IN  hashpw(SubSeq(password_bytes, 1,
                      IF Len(password_bytes) > MAX_PASSWORD_BYTES
                      THEN MAX_PASSWORD_BYTES ELSE Len(password_bytes)))

hash_password(plain_password) ==
    LET password_bytes == encode(plain_password)
    IN  IF Len(password_bytes) > MAX_PASSWORD_BYTES
        THEN [raised |-> TRUE, error |-> "ValueError", hashed |-> <<>>]
        ELSE hashpw(password_bytes)

NoHash == [done |-> FALSE, raised |-> FALSE, error |-> None, hashed |-> <<>>]

\* create_user, update_user and seed_admin hash the password they are given
HashPassword ==
    /\ ~output.done
    /\ LET h == hash_password(input)
       IN  output' = [done |-> TRUE, raised |-> h.raised, error |-> h.error,
                      hashed |-> h.hashed]
    /\ UNCHANGED <<accounts, auth_logs, call, user_roles, group_roles, input>>
    /\ UNCHANGED <<storeVars, adminVars>>

InitHash ==
    /\ StoreIdle
    /\ AdminIdle
    /\ TablesIdle
    /\ input \in PlainPasswords
    /\ output = NoHash

NextHash == HashPassword

SpecHash == InitHash /\ [][NextHash]_vars

\* ------------------------------------------------------------ AdminService.deactivate_user
IncludeInactiveInputs == BOOLEAN

ListedUsersIgnoresFlag(usrs, include_inactive) ==
    {u \in Users : usrs[u].present}

\* list_users: "select(User)", with "where(User.is_active.is_(True))" unless
\* include_inactive
ListedUsers(usrs, include_inactive) ==
    {u \in Users : usrs[u].present /\ (include_inactive \/ usrs[u].is_active)}

deactivate_user(id) ==
    /\ IF ~(id \in Users /\ users[id].present)
       THEN /\ output' = UserResult("deactivate_user", id, FALSE, "NotFoundError", FALSE, {})
            /\ UNCHANGED users
       ELSE /\ users' = [users EXCEPT ![id].is_active = FALSE]
            /\ output' = UserResult("deactivate_user", id, FALSE, None,
                                    users'[id].is_active, {})
    /\ UNCHANGED <<now, rows, nextRowId, nextSid, req, verified, loggedOut, started, issued>>
    /\ UNCHANGED <<accounts, auth_logs, call, user_roles, group_roles, input>>
    /\ UNCHANGED adminVars

list_users(include_inactive) ==
    /\ output' = UserResult("list_users", None, include_inactive, None, FALSE,
                            ListedUsers(users, include_inactive))
    /\ UNCHANGED <<accounts, auth_logs, call, user_roles, group_roles, input>>
    /\ UNCHANGED <<storeVars, adminVars>>

\* The accounts of InitAuth; no call of the administration has returned.
InitDeactivateUser ==
    /\ now = 0
    /\ rows = {NewRow(1, 1, Lifetime, ProfileData("u1", TRUE)),
               NewRow(2, 2, Lifetime, ProfileData("u2", TRUE))}
    /\ nextRowId = 3
    /\ users \in {[u \in Users |-> [present |-> TRUE, is_active |-> u = "u1" \/ b]] :
                    b \in BOOLEAN}
    /\ nextSid = 3
    /\ req = [r \in Reqs |-> IdleReq]
    /\ verified = {"u1", "u2"}
    /\ loggedOut = {}
    /\ started = 0
    /\ issued = {1, 2}
    /\ TablesIdle
    /\ AdminIdle
    /\ input = None
    /\ output = NoUserResult

\* Users log in while an administrator deactivates accounts and lists them.
NextDeactivateUser ==
    \/ \E r \in Reqs : \E u \in Usernames : \E p \in Passwords :
          AuthenticateSelect(r, u, p, "none")
    \/ \E r \in Reqs : AuthenticateCommit(r)
    \/ \E id \in Usernames : deactivate_user(id)
    \/ \E include_inactive \in IncludeInactiveInputs : list_users(include_inactive)

SpecDeactivateUser == InitDeactivateUser /\ [][NextDeactivateUser]_vars

\* ------------------------------------------------------------ AdminService.delete_*
\* The group ids an administrator submits: the group and one that does not
\* exist.  A group is named by its group_name here.
GroupIdInputs == Groups \cup {"nobody"}

GroupFound(table, id) ==
    \E i \in DOMAIN table : table[i].kind = "group" /\ table[i].name = id

\* list_groups: "select(Group)", with "where(Group.is_active.is_(True))" unless
\* include_inactive
ListedGroups(table, include_inactive) ==
    {table[i].name : i \in {j \in DOMAIN table :
        table[j].kind = "group" /\ (include_inactive \/ table[j].is_active)}}

IsOtherRow(row, id) == ~(row.kind = "group" /\ row.name = id)

\* AdminService.delete_group: the group row goes, and with it its role links
\* and its memberships (relationship cascade "all, delete-orphan", ON DELETE
\* CASCADE); an unknown id raises NotFoundError
delete_group(id) ==
    /\ IF ~GroupFound(entities, id)
       THEN /\ output' = UserResult("delete_group", id, FALSE, "NotFoundError", FALSE, {})
            /\ UNCHANGED <<entities, group_roles, user_groups>>
       ELSE /\ entities' = SelectSeq(entities, LAMBDA row : IsOtherRow(row, id))
            /\ group_roles' = {x \in group_roles : x.owner # id}
            /\ user_groups' = {x \in user_groups : x.group_id # id}
            /\ output' = UserResult("delete_group", id, FALSE, None, FALSE, {})
    /\ UNCHANGED <<accounts, auth_logs, call, user_roles, input>>
    /\ UNCHANGED <<admin, report_links>>
    /\ UNCHANGED storeVars

list_groups(include_inactive) ==
    /\ output' = UserResult("list_groups", None, include_inactive, None, FALSE,
                            ListedGroups(entities, include_inactive))
    /\ UNCHANGED <<accounts, auth_logs, call, user_roles, group_roles, input>>
    /\ UNCHANGED <<storeVars, adminVars>>

\* Two users, each with a session, and the group analysts; any of them may
\* hold role 1, the users may be members of the group, and u1 may have logged
\* in before, which left a row in audit.auth_logs.
InitDelete ==
    /\ now = 0
    /\ rows = {NewRow(1, 1, Lifetime, ProfileData("u1", TRUE)),
               NewRow(2, 2, Lifetime, ProfileData("u2", TRUE))}
    /\ nextRowId = 3
    /\ users = [u \in Users |-> [present |-> TRUE, is_active |-> TRUE]]
    /\ nextSid = 3
    /\ req = [r \in Reqs |-> IdleReq]
    /\ verified = {"u1", "u2"}
    /\ loggedOut = {}
    /\ started = 0
    /\ issued = {1, 2}
    /\ accounts = [u \in Users |-> FreshAccount]
    /\ auth_logs \in {<<>>, <<AuthLogRow(LogEntry("u1", TRUE, "login"), users)>>}
    /\ call = [r \in Reqs |-> NoCall]
    /\ user_roles \in SUBSET {[id |-> 1, owner |-> "u1", role_id |-> 1],
                              [id |-> 2, owner |-> "u2", role_id |-> 1]}
    /\ group_roles \in SUBSET {[id |-> 1, owner |-> "analysts", role_id |-> 1]}
    /\ user_groups \in SUBSET {UserGroup(1, "u1", "analysts"), UserGroup(2, "u2", "analysts")}
    /\ entities \in {<<EntityRow("group", "analysts", None, a)>> : a \in BOOLEAN}
    /\ admin = [r \in Reqs |-> NoAdminCall]
    /\ report_links = {}
    /\ input = None
    /\ output = NoUserResult

\* An administrator deletes users and groups and lists them.
NextDelete ==
    \/ \E id \in Usernames : delete_user(id)
    \/ \E id \in GroupIdInputs : delete_group(id)
    \/ \E include_inactive \in IncludeInactiveInputs : list_users(include_inactive)
    \/ \E include_inactive \in IncludeInactiveInputs : list_groups(include_inactive)

SpecDelete == InitDelete /\ [][NextDelete]_vars

\* ------------------------------------------------------------ profile snapshot in the session
\* The sessions created in one run.
MaxSessions == 2

\* The roles and reports of the run: editor and viewer, both active, and two
\* active reports; what the user holds is in user_roles, user_groups,
\* group_roles and report_links.
SnapshotTables ==
    {g \in ReportTables :
        /\ g.role_name[1] = "editor"
        /\ \A role \in Roles : g.role_active[role]
        /\ \A report \in Reports : g.report_active[report]}

\* The graph the SELECT of authenticate loads for the user (joinedload of
\* roles, groups, their roles and the report assignments)
GraphFor(g, u) ==
    [Refreshed(g, report_links) EXCEPT
        !.user_roles = {x.role_id : x \in {y \in user_roles : y.owner = u}},
        !.user_groups = {x.group_id : x \in {y \in user_groups : y.owner = u}},
        !.group_roles = [group \in Groups |->
                            {x.role_id : x \in {y \in group_roles : y.owner = group}}]]

UnloadedGraph(g, u) == g

\* The graph inside the transaction of authenticate
LoadedGraph(g, u) == GraphFor(g, u)

\* profile.to_dict() plus the remember flag: the map flask_session.update stores
SessionData(u, remember, profile) ==
    [user_id |-> u, username |-> u, remember |-> IF remember THEN "yes" ELSE "no",
     permanent |-> None, roles |-> profile.roles, groups |-> profile.groups,
     permissions |-> profile.permissions, reports |-> profile.reports]

\* The roles, groups, permissions and reports a session map holds.
AccessOf(data) ==
    [roles |-> data.roles, groups |-> data.groups, permissions |-> data.permissions,
     reports |-> data.reports]

Snapshot(op, user, token, access) ==
    [op |-> op, user |-> user, token |-> token, access |-> access]

NoSnapshot ==
    Snapshot(None, None, 0,
             [roles |-> <<>>, groups |-> <<>>, permissions |-> <<>>, reports |-> <<>>])

\* A login with the right password of an active account, and the save_session
\* of its response: authenticate resolves the profile, logs the login and
\* resets the account, process_login puts the profile into the session, and
\* save_session stores it in a new row under a new token
LoginAndSave(u) ==
    /\ users[u].present /\ users[u].is_active
    /\ Cardinality(rows) < MaxSessions
    /\ LET profile == build_access_profile(LoadedGraph(input, u), TRUE)
       IN  /\ rows' = rows \cup {NewRow(nextRowId, nextSid, now + Lifetime,
                                        SessionData(u, TRUE, profile))}
           /\ output' = Snapshot("login", u, nextSid, profile)
    /\ nextRowId' = nextRowId + 1
    /\ nextSid' = nextSid + 1
    /\ issued' = issued \cup {nextSid}
    /\ verified' = verified \cup {u}
    /\ auth_logs' = Append(auth_logs, AuthLogRow(LogEntry(u, TRUE, "login"), users))
    /\ accounts' = [accounts EXCEPT ![u] = SuccessAssigned(now)]
    /\ UNCHANGED <<now, users, req, loggedOut, started>>
    /\ UNCHANGED <<call, user_roles, group_roles, input>>
    /\ UNCHANGED adminVars

\* A later request of the session: open_session loads the map of the row
LoadSession(sid) ==
    /\ open_session(rows, sid, now).kind = "loaded"
    /\ LET data == open_session(rows, sid, now).data
       IN  output' = Snapshot("open", data.user_id, sid, AccessOf(data))
    /\ UNCHANGED <<accounts, auth_logs, call, user_roles, group_roles, input>>
    /\ UNCHANGED <<storeVars, adminVars>>

InitSnapshot ==
    /\ StoreIdle
    /\ AdminIdle
    /\ TablesIdle
    /\ input \in SnapshotTables
    /\ output = NoSnapshot

\* The user u1 logs in and uses its sessions while an administrator grants
\* roles to u1 and reports to the roles.
NextSnapshot ==
    \/ LoginAndSave("u1")
    \/ \E sid \in issued : LoadSession(sid)
    \/ \E role \in Roles : assign_role_to_user("u1", role)
    \/ \E report \in Reports : \E can_view \in CanViewInputs :
          assign_report_to_role(1, report, can_view)

SpecSnapshot == InitSnapshot /\ [][NextSnapshot]_vars

\* ------------------------------------------------------------ render_page
\* The session maps and pathnames render_page is called with: no user or u1,
\* roles, a permission map over three resources (each absent or with a list of
\* actions), the listed reports; the paths of the pages, of two registered
\* reports, one unknown path and no path at all.
PageRoles == {<<>>, <<"admin">>, <<"viewer">>, <<"admin", "viewer">>}
PageResources == {"*", "admin", "dashboard"}
PageActionLists == {<<>>, <<"read">>, <<"write">>}
PagePermissions == UNION {[D -> PageActionLists] : D \in SUBSET PageResources}
PageReportLists ==
    {<<>>, <<[code |-> "sales_dashboard"]>>, <<[code |-> "product_dynamics"]>>,
     <<[code |-> "product_dynamics"], [code |-> "sales_dashboard"]>>}
NoPath == "None"
Pathnames == {NoPath, "/", "/login", "/library", "/admin", "/dashboard",
              "/reports/product-dynamics", "/nowhere"}

PageSessions ==
    [user_id : {None, "u1"}, roles : PageRoles, permissions : PagePermissions,
     reports : PageReportLists]

PageInputs == [session : PageSessions, pathname : Pathnames]

\* The registry of ui/reports: the entry of a route, or None
NoEntry == [code |-> None, route |-> None, permission_resource |-> None]

get_report(route) ==
    CASE route = "/dashboard" ->
           [code |-> "sales_dashboard", route |-> route, permission_resource |-> "dashboard"]
      [] route = "/reports/product-dynamics" ->
           [code |-> "product_dynamics", route |-> route, permission_resource |-> None]
      [] OTHER -> NoEntry

has_permission_any_action(session_data, resource, action) ==
    "*" \in DOMAIN session_data.permissions \/ resource \in DOMAIN session_data.permissions

\* _has_permission: the action is in the list of "*" or in the list of the
\* resource
has_permission(session_data, resource, action) ==
    LET permissions == session_data.permissions
        allowed == IF resource \in DOMAIN permissions THEN permissions[resource] ELSE <<>>
    IN  \/ /\ "*" \in DOMAIN permissions
           /\ \E i \in DOMAIN permissions["*"] : permissions["*"][i] = action
        \/ \E i \in DOMAIN allowed : allowed[i] = action

\* _can_view_report: a listed report has the code
can_view_report(session_data, report_code) ==
    \E i \in DOMAIN session_data.reports : session_data.reports[i].code = report_code

\* admin_disabled of render_page
admin_disabled(session_data) ==
    ~(\/ \E i \in DOMAIN session_data.roles : session_data.roles[i] = "admin"
      \/ has_permission(session_data, "admin", "read"))

\* _can_access_report_entry
can_access_report_entry(session_data, entry) ==
    \/ ~admin_disabled(session_data)
    \/ /\ entry.permission_resource # None
       /\ has_permission(session_data, entry.permission_resource, "read")
    \/ /\ entry.code # None
       /\ can_view_report(session_data, entry.code)

Page(layout, code, redirect) == [layout |-> layout, code |-> code, redirect |-> redirect]

\* render_page: the layout returned (for a report, with its code) and the
\* redirect
render_page_for(session_data, path) ==
    LET pathname == IF path = NoPath THEN "/" ELSE path
        report_entry == get_report(pathname)
    IN  IF session_data.user_id = None
        THEN Page("login", None,
                  IF pathname \notin {"/", "/login"} THEN "/login" ELSE "no_update")
        ELSE IF pathname \in {"/", "/library"}
        THEN Page("library", None, "no_update")
        ELSE IF report_entry # NoEntry
        THEN IF ~can_access_report_entry(session_data, report_entry)
             THEN Page("unauthorized", None, "no_update")
             ELSE Page("report", report_entry.code, "no_update")
        ELSE IF pathname = "/admin"
        THEN IF admin_disabled(session_data)
             THEN Page("unauthorized", None, "no_update")
             ELSE Page("admin", None, "no_update")
        ELSE IF pathname = "/login"
        THEN Page("library", None, "/library")
        ELSE Page("not_found", None, "no_update")

NoPage == [done |-> FALSE, page |-> Page(None, None, None)]

\* The router callback answers a change of the url
RenderPage ==
    /\ ~output.done
    /\ output' = [done |-> TRUE, page |-> render_page_for(input.session, input.pathname)]
    /\ UNCHANGED <<accounts, auth_logs, call, user_roles, group_roles, input>>
    /\ UNCHANGED <<storeVars, adminVars>>

InitPage ==
    /\ StoreIdle
    /\ AdminIdle
    /\ TablesIdle
    /\ input \in PageInputs
    /\ output = NoPage

NextPage == RenderPage

SpecPage == InitPage /\ [][NextPage]_vars

\* ------------------------------------------------------------ AdminService._session_scope
\* The keyword arguments of update_user and update_group: "unset" stands for
\* an argument left at None.
EmailInputs == {"unset", "d@x", "n@x"}
GroupNameInputs == {"unset", "ops", "staff"}
FlagInputs == {"unset", "true", "false"}
\* A password of more than MAX_PASSWORD_BYTES bytes is "long".
PasswordInputs == {"unset", "long"}

\* role_ids and group_ids: None, or a list that holds each id once or more.
IdList(given, ids) == [given |-> given, ids |-> ids]
RoleIdLists == {IdList(FALSE, {})} \cup {IdList(TRUE, ids) : ids \in {{}, {1}, {0, 1}}}
GroupIdLists == {IdList(FALSE, {})} \cup {IdList(TRUE, ids) : ids \in {{"analysts"}, {"nobody"}}}

\* The user, role, group and grant rows.
Database ==
    [users |-> users, entities |-> entities, user_roles |-> user_roles,
     group_roles |-> group_roles, user_groups |-> user_groups,
     report_links |-> report_links]

\* How the body of "with self._session_scope()" ends: the rows as the
\* transaction holds them, and the exception raised (None for a return).
Exit(db, error) == [db |-> db, error |-> error]

\* What an update_* call hands back: the summary, or the exception.
AdminResult(op, id, is_active, error) ==
    [op |-> op, id |-> id, is_active |-> is_active, error |-> error]

NoAdminResult == AdminResult(None, None, "unset", None)

session_scope_commits(before, exit) == exit.db

\* _session_scope: session.commit() after the body, session.rollback() and
\* re-raise on any exception
session_scope(before, exit) == IF exit.error = None THEN exit.db ELSE before

\* _email_exists: another user row has the email
email_exists(db, email, exclude_user_id) ==
    \/ \E u \in Users \ {exclude_user_id} : db.users[u].present /\ db.users[u].email = email
    \/ \E i \in DOMAIN db.entities :
          db.entities[i].kind = "user" /\ db.entities[i].email = email

\* "user.roles = roles", "group.roles = roles": the unit of work deletes the
\* link rows of the roles that left the collection and inserts rows for the new
SetRoles(table, owner, role_ids) ==
    LET kept == {x \in table : x.owner # owner \/ x.role_id \in role_ids}
    IN  RoleLinks(kept, owner,
                  role_ids \ {x.role_id : x \in {y \in kept : y.owner = owner}})

\* "user.groups = groups"
SetGroups(table, owner, group_ids) ==
    LET kept == {x \in table : x.owner # owner \/ x.group_id \in group_ids}
    IN  GroupLinks(kept, owner,
                   group_ids \ {x.group_id : x \in {y \in kept : y.owner = owner}})

Flag(value, old) == IF value = "unset" THEN old ELSE value = "true"

\* The body of update_user
UpdateUserExit(db, id, email, is_active, role_ids, group_ids, password) ==
    IF ~(id \in Users /\ db.users[id].present) THEN Exit(db, "NotFoundError")
    ELSE IF email # "unset" /\ email # db.users[id].email /\ email_exists(db, email, id)
    THEN Exit(db, "DuplicateUserError")
    ELSE
    LET assigned == [db EXCEPT !.users[id].email = IF email = "unset" THEN @ ELSE email,
                               !.users[id].is_active = Flag(is_active, @)]
    IN  IF role_ids.given /\ ~RolesLoaded(role_ids.ids) THEN Exit(assigned, "NotFoundError")
        ELSE
        LET roles == [assigned EXCEPT !.user_roles =
                         IF role_ids.given THEN SetRoles(@, id, role_ids.ids) ELSE @]
        IN  IF group_ids.given /\ ~GroupsLoaded(db.entities, group_ids.ids)
            THEN Exit(roles, "NotFoundError")
            ELSE
            LET groups == [roles EXCEPT !.user_groups =
                              IF group_ids.given THEN SetGroups(@, id, group_ids.ids) ELSE @]
            IN  IF password = "long" THEN Exit(groups, "ValueError")
                ELSE Exit(groups, None)

\* A group is named by its group_name in the link rows: a renamed group takes
\* its rows along.
Renamed(table, old, new) ==
    {IF x.owner = old THEN [x EXCEPT !.owner = new] ELSE x : x \in table}

RenamedMembers(table, old, new) ==
    {IF x.group_id = old THEN [x EXCEPT !.group_id = new] ELSE x : x \in table}

\* The body of update_group
UpdateGroupExit(db, id, group_name, is_active, role_ids) ==
    IF ~GroupFound(db.entities, id) THEN Exit(db, "NotFoundError")
    ELSE IF group_name # "unset" /\ group_name # id
            /\ name_exists(db.entities, "group", group_name, None)
    THEN Exit(db, "DuplicateGroupError")
    ELSE
    LET name == IF group_name = "unset" THEN id ELSE group_name
        assigned ==
            [db EXCEPT
               !.entities = [i \in DOMAIN @ |->
                               IF @[i].kind = "group" /\ @[i].name = id
                               THEN [@[i] EXCEPT !.name = name,
                                                 !.is_active = Flag(is_active, @)]
                               ELSE @[i]],
               !.group_roles = Renamed(@, id, name),
               !.user_groups = RenamedMembers(@, id, name)]
    IN  IF role_ids.given /\ ~RolesLoaded(role_ids.ids) THEN Exit(assigned, "NotFoundError")
        ELSE Exit([assigned EXCEPT !.group_roles =
                      IF role_ids.given THEN SetRoles(@, name, role_ids.ids) ELSE @],
                  None)

\* One call of an update_*: the body, then the exit of _session_scope.
Transaction(op, id, is_active, exit) ==
    LET after == session_scope(Database, exit)
    IN  /\ users' = after.users
        /\ entities' = after.entities
        /\ user_roles' = after.user_roles
        /\ group_roles' = after.group_roles
        /\ user_groups' = after.user_groups
        /\ report_links' = after.report_links
        /\ output' = AdminResult(op, id, is_active, exit.error)
        /\ UNCHANGED <<now, rows, nextRowId, nextSid, req, verified, loggedOut, started, issued>>
        /\ UNCHANGED <<accounts, auth_logs, call, input, admin>>

update_user(id, email, is_active, role_ids, group_ids, password) ==
    Transaction("update_user", id, is_active,
                UpdateUserExit(Database, id, email, is_active, role_ids, group_ids, password))

update_group(id, group_name, is_active, role_ids) ==
    Transaction("update_group", id, is_active,
                UpdateGroupExit(Database, id, group_name, is_active, role_ids))

\* Two users and the group analysts, with or without grants and with or without
\* a second group.
InitAtomic ==
    /\ now = 0
    /\ rows = {}
    /\ nextRowId = 1
    /\ users = [u \in Users |->
                  [present |-> TRUE, is_active |-> TRUE,
                   email |-> IF u = "u1" THEN "o@x" ELSE "d@x"]]
    /\ nextSid = 1
    /\ req = [r \in Reqs |-> IdleReq]
    /\ verified = {}
    /\ loggedOut = {}
    /\ started = 0
    /\ issued = {}
    /\ accounts = [u \in Users |-> FreshAccount]
    /\ auth_logs = <<>>
    /\ call = [r \in Reqs |-> NoCall]
    /\ user_roles \in SUBSET {[id |-> 1, owner |-> "u1", role_id |-> 2]}
    /\ group_roles \in SUBSET {[id |-> 1, owner |-> "analysts", role_id |-> 1]}
    /\ user_groups = {}
    /\ entities \in {<<EntityRow("group", "analysts", None, TRUE)>>,
                      <<EntityRow("group", "analysts", None, TRUE),
                        EntityRow("group", "ops", None, TRUE)>>}
    /\ admin = [r \in Reqs |-> NoAdminCall]
    /\ report_links = {}
    /\ input = None
    /\ output = NoAdminResult

\* An administrator creates and updates users and groups.
NextAtomic ==
    \/ \E email \in EmailInputs : \E is_active \in FlagInputs :
          \E role_ids \in RoleIdLists : \E group_ids \in GroupIdLists :
             \E password \in PasswordInputs :
                update_user("u1", email, is_active, role_ids, group_ids, password)
    \/ \E is_active \in FlagInputs :
          update_user("nobody", "unset", is_active, IdList(FALSE, {}), IdList(FALSE, {}), "unset")
    \/ \E group_name \in GroupNameInputs : \E is_active \in FlagInputs :
          \E role_ids \in RoleIdLists :
             update_group("analysts", group_name, is_active, role_ids)
    \/ \E is_active \in FlagInputs :
          update_group("nobody", "unset", is_active, IdList(FALSE, {}))
    \/ \E role_ids \in RoleIdSets : create_user(1, "dev", "n@x", TRUE, role_ids, {})
    \/ CreateFlush(1)

SpecAtomic == InitAtomic /\ [][NextAtomic]_vars

\* ------------------------------------------------------------ properties
\* The rows of a table that are the row x (same primary key).
SameRow(table, x) == {y \in table : y.session_id = x.session_id}

Ids(table) == {x.session_id : x \in table}

\* Every row but the one with the primary key of x is in both tables unchanged.
OthersUnchanged(old, new, x) ==
    /\ \A y \in old : y.session_id # x.session_id => y \in new
    /\ \A y \in new : y.session_id # x.session_id => y \in old

\* Between the SELECT of request q and its commit no other transaction has
\* written the row q loaded.
Undisturbed(q) ==
    q.record # NoRow /\ RowById(rows, q.record.session_id) = q.record

\* C1: once the row of a token is inactive, no step of any request, in any
\* interleaving, makes it active again.
C1_InactiveRowStaysInactive ==
    [][\A x \in rows : ~x.is_active =>
          \A y \in SameRow(rows', x) : ~y.is_active]_vars

\* C2: a successful login answers with a session token other than the one the
\* request presented.
C2_LoginIssuesFreshToken ==
    \A r \in Reqs :
        (req[r].pc = "done" /\ req[r].outcome = "login_ok" /\ req[r].resp.kind = "set")
            => req[r].resp.sid # req[r].cookie

\* C3: at every moment a token has at most one row, hence at most one live row,
\* also when two requests insert the same token and when users are deleted.
C3_OneRowPerToken ==
    \A t \in Sids \cup {Garbage} :
        /\ Cardinality(RowsOf(rows, t)) <= 1
        /\ Cardinality({x \in RowsOf(rows, t) : x.is_active /\ x.expires_at > now}) <= 1

\* Two requests have both found no row for the token; one has inserted it and
\* the other is about to.
C3_Witness ==
    \E r \in Reqs :
        /\ req[r].pc = "save_commit"
        /\ req[r].record = NoRow
        /\ ForeignKeyOk(users, req[r].data.user_id)
        /\ RowsOf(rows, req[r].sid) # {}

\* C4: open_session changes no row when the cookie has no row and starts a new
\* session; a row that is inactive or expired is loaded for the tombstone, and
\* when the tombstone commits on the row as loaded, the row is inactive with
\* expires_at = the time open_session read, every other row is untouched and
\* the request continues under another sid with a new session that holds
\* nothing of the row (only the _permanent mark of a new DatabaseSession).
C4_OpenSessionTombstones ==
    [][\A r \in Reqs :
         LET q == req[r]
             q2 == req'[r] IN
         /\ (q.pc = "idle" /\ q2.pc # "idle") =>
              /\ rows' = rows
              /\ RowsOf(rows, q2.cookie) = {} =>
                   (q2.pc = "handler" /\ q2.new /\ q2.data = FreshData)
              /\ \A x \in RowsOf(rows, q2.cookie) :
                   (~x.is_active \/ x.expires_at <= now) =>
                       (q2.pc = "open_commit" /\ q2.record = x /\ q2.t = now)
         /\ (q.pc = "open_commit" /\ q2.pc # "open_commit" /\ Undisturbed(q)) =>
              /\ q2.pc = "handler" /\ q2.new /\ q2.data = FreshData
              /\ q2.sid # q.cookie
              /\ SameRow(rows', q.record) # {}
              /\ \A y \in SameRow(rows', q.record) :
                   ~y.is_active /\ y.expires_at = q.t
              /\ OthersUnchanged(rows, rows', q.record)
      ]_vars

\* A request has tombstoned, after the clock advanced, the row of the cookie
\* it presented.
C4_Witness ==
    \E r \in Reqs :
        /\ req[r].pc = "handler" /\ req[r].outcome = "tombstoned"
        /\ now = 1
        /\ \E x \in RowsOf(rows, req[r].cookie) : ~x.is_active /\ x.expires_at = 1

\* C5: save_session of a session without user_id never inserts a row; when its
\* commit meets the row as loaded, the row of the token is inactive with
\* expires_at = the time save_session read, so no live row is left for the
\* token; when the token has no row, no row changes.
C5_AnonymousSaveDeactivates ==
    [][\A r \in Reqs :
         LET q == req[r]
             q2 == req'[r] IN
         /\ (q.pc \in {"save", "save_commit", "deactivate_commit"}
                /\ q.data.user_id = None /\ q2 # q) =>
              Ids(rows') \subseteq Ids(rows)
         /\ (q.pc = "save" /\ q.data.user_id = None /\ q2.pc = "done") =>
              (rows' = rows /\ RowsOf(rows, q.sid) = {})
         /\ (q.pc \in {"save_commit", "deactivate_commit"}
                /\ q.data.user_id = None /\ q2 # q /\ Undisturbed(q)) =>
              /\ q2.pc = "done" /\ q2.resp.kind # "error"
              /\ RowsOf(rows', q.sid) # {}
              /\ \A y \in RowsOf(rows', q.sid) :
                   /\ ~y.is_active /\ y.expires_at = q.t
                   /\ ~(y.is_active /\ y.expires_at > now')
              /\ OthersUnchanged(rows, rows', q.record)
      ]_vars

\* A session that kept data but no user_id has been saved: its row is
\* inactive and holds the data.
C5_Witness ==
    \E r \in Reqs :
        /\ req[r].pc = "done" /\ req[r].outcome = "pop" /\ req[r].resp.kind = "set"
        /\ \E x \in RowsOf(rows, req[r].sid) :
             ~x.is_active /\ x.session_data.user_id = None
                /\ x.session_data.username # None

\* C6: save_session of a session with user_id is an upsert: with no row for
\* the token it inserts exactly one, and on the row as loaded it updates that
\* row in place; afterwards the row is active and holds the session data, its
\* user_id and expires_at = the time save_session read + the lifetime.
C6_SaveIsUpsert ==
    [][\A r \in Reqs :
         LET q == req[r]
             q2 == req'[r] IN
         (/\ q.pc = "save_commit" /\ q2 # q
          /\ q.data.user_id # None
          /\ \/ q.record = NoRow /\ RowsOf(rows, q.sid) = {}
             \/ Undisturbed(q)) =>
            /\ q2.pc = "done" /\ q2.resp = SetCookie(q.sid)
            /\ Cardinality(RowsOf(rows', q.sid)) = 1
            /\ \A y \in RowsOf(rows', q.sid) :
                 /\ y.is_active
                 /\ y.session_data = q.data
                 /\ y.user_id = q.data.user_id
                 /\ y.expires_at = q.t + Lifetime
                 /\ q.record # NoRow => y.session_id = q.record.session_id
                 /\ q.record = NoRow => y.session_id \notin Ids(rows)
                 /\ OthersUnchanged(rows, rows', y)
      ]_vars

\* The row the login of one user inserted has been updated in place by the
\* login of the other user under the same token.
C6_Witness ==
    \E r \in Reqs :
        /\ req[r].pc = "done" /\ req[r].outcome = "login_ok"
        /\ req[r].sid = req[r].cookie
        /\ verified = {"u1", "u2"}
        /\ Cardinality(rows) = 1
        /\ \E x \in RowsOf(rows, req[r].sid) : x.is_active /\ x.user_id = "u2"

C8_DeactivationIdempotent ==
    [][/\ Ids(rows') = Ids(rows)
       /\ \A x \in rows : ~x.is_active =>
            \A y \in SameRow(rows', x) : ~y.is_active /\ y.expires_at <= now'
       /\ \A r \in Reqs :
            LET q == req[r]
                q2 == req'[r] IN
            /\ (q.pc \in {"logout_commit", "deactivate_commit"} /\ q2 # q) =>
                 /\ SameRow(rows', q.record) # {}
                 /\ \A y \in SameRow(rows', q.record) :
                      ~y.is_active /\ y.expires_at <= now
                 /\ OthersUnchanged(rows, rows', q.record)
            /\ (q.pc \in {"handler", "save"} /\ q2 # q) => rows' = rows
      ]_vars

\* _deactivate_session is about to commit on a row a deactivation has made
\* inactive before, while the session of the other user is still live.
C8_Witness ==
    \E r \in Reqs :
        /\ req[r].pc = "deactivate_commit"
        /\ ~req[r].record.is_active
        /\ \E x \in rows : x.session_token # req[r].sid /\ x.is_active

\* C9: the logout request of an authenticated session answers by deleting the
\* cookie, and once it has completed the row of its token is not live, so
\* that no later request is given the session.
C9_LogoutEndsSession ==
    /\ \A r \in Reqs :
         (req[r].pc = "done" /\ req[r].outcome = "logout") =>
             req[r].resp.kind = "deleted"
    /\ \A t \in loggedOut :
         \A x \in RowsOf(rows, t) : ~(x.is_active /\ x.expires_at > now)

\* C10: every stored row and every session in flight that carries a user_id
\* carries a complete profile of a user whose password authenticate verified
\* and whose profile it built; a login that fails or raises changes neither
\* the session nor a row.
C10_UserIdOnlyAfterAuthenticate ==
    /\ [](/\ \A x \in rows :
               /\ x.user_id \in verified
               /\ [x.session_data EXCEPT !.permanent = None]
                     \in {ProfileData(u, b) : u \in verified, b \in BOOLEAN}
          /\ \A r \in Reqs :
               req[r].data.user_id # None =>
                  /\ req[r].data.user_id \in verified
                  /\ [req[r].data EXCEPT !.permanent = None]
                        \in {ProfileData(req[r].data.user_id, b) : b \in BOOLEAN})
    /\ [][\A r \in Reqs :
            (req[r].pc = "handler"
                /\ req'[r].outcome \in {"login_failed", "login_error"}) =>
               (req'[r].data = req[r].data /\ rows' = rows)]_vars

\* A login with the right password whose profile could not be built has ended:
\* no row exists and the user is not verified.
C10_Witness ==
    \E r \in Reqs :
        /\ req[r].pc = "done" /\ req[r].outcome = "login_error"
        /\ req[r].resp.kind = "set"
        /\ verified = {}
        /\ rows = {}

\* No other transaction has written the account since the call c loaded it.
AccountUndisturbed(c) ==
    c.username \in Users => accounts[c.username] = c.loaded

\* C11: without a storage fault, a failed login returns None, commits exactly
\* one AuthLog row with success = false and action = login, and changes no
\* session row; with a wrong password for an existing active account it adds
\* exactly 1 to that account's failed_login_attempts and touches no other
\* account attribute, with an unknown or inactive account it changes no account.
C11_FailedLoginCountsAndLogs ==
    [][\A r \in Reqs :
        LET c == call[r] IN
        (/\ c.pc = "commit" /\ call'[r].pc = "done"
         /\ c.fault = "none" /\ c.kind \in {"wrong", "missing"}
         /\ AccountUndisturbed(c))
        => /\ call'[r].result = "none"
           /\ Len(auth_logs') = Len(auth_logs) + 1
           /\ SubSeq(auth_logs', 1, Len(auth_logs)) = auth_logs
           /\ LET log == auth_logs'[Len(auth_logs')] IN
                 /\ log.username = c.username
                 /\ ~log.success
                 /\ log.action = "login"
           /\ rows' = rows
           /\ c.kind = "wrong" =>
                 accounts' = [accounts EXCEPT ![c.username].failed_login_attempts = @ + 1]
           /\ c.kind = "missing" => accounts' = accounts]_vars

\* A wrong password for the active account u1 has been counted and logged, and
\* so has a login of an account that does not exist.
C11_Witness ==
    /\ \E r \in Reqs :
          /\ call[r].pc = "done" /\ call[r].kind = "wrong" /\ call[r].result = "none"
          /\ call[r].username = "u1"
    /\ accounts["u1"].failed_login_attempts = 1
    /\ \E r \in Reqs :
          /\ call[r].pc = "done" /\ call[r].kind = "missing" /\ call[r].result = "none"
          /\ call[r].username = "nobody"
    /\ Len(auth_logs) = 2

\* What the caller of a login sees: the value authenticate returned and the
\* error flag, message and redirect process_login made of it.
Observed(c) == [result |-> c.result, response |-> c.response]

\* C12: any two failed logins that met the same storage conditions show their
\* callers the same result, message and redirect, whether the username was
\* unknown, the account inactive or the password wrong.
C12_FailedLoginsLookAlike ==
    \A r1, r2 \in Reqs :
        (/\ call[r1].pc = "done" /\ call[r2].pc = "done"
         /\ call[r1].kind \in {"wrong", "missing"}
         /\ call[r2].kind \in {"wrong", "missing"}
         /\ call[r1].fault = call[r2].fault)
        => Observed(call[r1]) = Observed(call[r2])

\* One caller has failed with a wrong password for the active account u1, the
\* other with the right password of the deactivated account u2.
C12_Witness ==
    /\ ~users["u2"].is_active
    /\ \E r1, r2 \in Reqs :
          /\ call[r1].pc = "done" /\ call[r1].kind = "wrong" /\ call[r1].username = "u1"
          /\ call[r2].pc = "done" /\ call[r2].kind = "missing" /\ call[r2].username = "u2"
          /\ call[r2].password = PasswordOf("u2")
          /\ call[r1].fault = "none" /\ call[r2].fault = "none"
          /\ call[r1].result = "none" /\ call[r2].result = "none"

\* C13: when only the INSERT of the AuthLog row fails, a login with valid
\* credentials still returns the profile and keeps failed_login_attempts = 0
\* and last_login, and a login with invalid credentials still returns None.
C13_LogFailureDoesNotAbort ==
    [][\A r \in Reqs :
        LET c == call[r] IN
        (c.pc = "commit" /\ call'[r].pc = "done" /\ c.fault = "log")
        => /\ c.kind = "ok" =>
                 /\ call'[r].result = "profile"
                 /\ accounts'[c.username] = SuccessAssigned(now)
           /\ c.kind \in {"wrong", "missing"} => call'[r].result = "none"]_vars

\* The storage fault of call c is one that happens: the SELECT of the user or
\* COMMIT fails, or the report query fails in a call that gets as far as it.
FaultHits(c) ==
    \/ c.fault \in {"lookup", "commit"}
    \/ c.fault = "reports" /\ c.kind = "ok"

\* C14: a call of authenticate that ends with None found the account missing
\* or inactive or the password wrong, and met no failure of the user lookup,
\* the report query or the commit; a call that met one ends with an exception
\* and leaves the accounts, the audit log and the session rows as they were.
C14_StorageFailureRaises ==
    [][\A r \in Reqs :
        LET d == call'[r] IN
        (call'[r] # call[r] /\ d.pc = "done")
        => /\ d.result = "none" => (d.kind \in {"wrong", "missing"} /\ ~FaultHits(d))
           /\ FaultHits(d) =>
                 /\ d.result = "raise"
                 /\ accounts' = accounts
                 /\ auth_logs' = auth_logs
                 /\ rows' = rows]_vars

\* Right password, COMMIT failed: the caller got the exception, and neither
\* the login time nor an audit row was stored.  Another call, whose user
\* lookup failed, got the exception too.
C14_Witness ==
    \E r1, r2 \in Reqs :
        /\ call[r1].pc = "done" /\ call[r1].fault = "commit" /\ call[r1].kind = "ok"
        /\ call[r1].result = "raise"
        /\ accounts[call[r1].username] = FreshAccount
        /\ call[r2].pc = "done" /\ call[r2].fault = "lookup" /\ call[r2].result = "raise"
        /\ auth_logs = <<>>

\* C15: when a request commits its save_session of a live session after another
\* request has saved the same token for the same user in between, the token's
\* row is still the only one, is active, is bound to the same user_id and holds
\* exactly the data of this last save.
C15_LastSaveWins ==
    [][\A r \in Reqs :
         LET q == req[r]
             q2 == req'[r]
             cur == RowById(rows, q.record.session_id) IN
         (/\ q.pc = "save_commit" /\ q2 # q
          /\ q.data.user_id # None
          /\ q.record # NoRow /\ Live(q.record, q.t)
          /\ q.record.user_id = q.data.user_id
          /\ cur # NoRow /\ cur # q.record
          /\ cur.is_active /\ cur.user_id = q.data.user_id
          /\ cur.session_data # q.data) =>
            /\ q2.pc = "done" /\ q2.resp = SetCookie(q.sid)
            /\ Cardinality(RowsOf(rows', q.sid)) = 1
            /\ \A y \in RowsOf(rows', q.sid) :
                 /\ y.is_active
                 /\ y.user_id = q.data.user_id
                 /\ y.session_data = q.data
      ]_vars

\* The non-empty actions some map of the input grants on resource r.
Granted(maps, r) ==
    {a \in Actions \ {Blank} :
        \E i \in DOMAIN maps :
            /\ ~maps[i].none
            /\ r \in DOMAIN maps[i].items
            /\ \E j \in DOMAIN maps[i].items[r] : maps[i].items[r][j] = a}

\* The sequence s lists the set S in ascending order without duplicates.
SortedUnion(s, S) ==
    /\ {s[i] : i \in DOMAIN s} = S
    /\ \A i, j \in DOMAIN s : i < j => s[i] < s[j]

\* The input with its maps in the opposite order.
Reversed(maps) == [i \in DOMAIN maps |-> maps[Len(maps) + 1 - i]]

\* C16: the result of combine_permission_maps holds exactly the resources on
\* which some map grants a non-empty action, each with the sorted duplicate-free
\* union of the non-empty actions any map grants on it, and it is the same for
\* the maps in the opposite order.
C16_CombineIsAdditiveUnion ==
    output.done =>
        /\ DOMAIN output.value = {r \in Resources : Granted(input, r) # {}}
        /\ \A r \in DOMAIN output.value :
              SortedUnion(output.value[r], Granted(input, r))
        /\ combine_permission_maps(Reversed(input)) = output.value

\* The active direct roles of the user and the active roles of its active groups.
ExpectedRoles(g) ==
    {role \in g.user_roles : g.role_active[role]} \cup
    {role \in Roles :
        \E group \in g.user_groups :
            g.group_active[group] /\ role \in g.group_roles[group] /\ g.role_active[role]}

\* The names of a set of roles.
NamesOf(g, roles) == {g.role_name[role] : role \in roles}

\* The sequence s lists the names of S in lexicographic order, each once.
SortedNames(s, S) ==
    /\ {s[i] : i \in DOMAIN s} = S
    /\ \A i, j \in DOMAIN s : i < j => Rank(s[i]) < Rank(s[j])

\* The actions a permission map holds for a resource.
ActionsOn(items, res) ==
    IF res \in DOMAIN items THEN {items[res][i] : i \in DOMAIN items[res]} ELSE {}

\* C17: the roles of a resolved profile are the sorted set of the names of the
\* user's active direct roles and of the active roles of its active groups, the
\* groups are the sorted names of its active groups; the permissions are those
\* of these roles only and, unless one of them is admin, so are the reports:
\* an inactive role and an inactive group contribute nothing.
C17_OnlyActiveRolesAndGroups ==
    output.done =>
        /\ SortedNames(output.roles, NamesOf(input, ExpectedRoles(input)))
        /\ SortedNames(output.groups,
                       {group \in input.user_groups : input.group_active[group]})
        /\ \A res \in Resources :
              ActionsOn(output.permissions, res) =
                 UNION {ActionsOn(role_permissions(role).items, res) :
                           role \in ExpectedRoles(input)}
        /\ "admin" \notin NamesOf(input, ExpectedRoles(input)) =>
              \A i \in DOMAIN output.reports :
                 \E role \in ExpectedRoles(input) :
                    input.grants[<<role, output.reports[i].code>>] = "view"

\* The user's direct role viewer is inactive and holds a grant; the profile has
\* only the role admin, which the active group analysts brings, and not the
\* inactive group role; viewer's permission ("write" on reports) is not in it.
C17_Witness ==
    /\ output.done
    /\ input.role_name[1] = "admin"
    /\ input.user_roles = {2} /\ ~input.role_active[2]
    /\ input.grants[<<2, "sales">>] = "view"
    /\ input.user_groups = {"analysts"} /\ input.group_active["analysts"]
    /\ input.group_roles["analysts"] = {1, 2}
    /\ output.roles = <<"admin">> /\ output.groups = <<"analysts">>
    /\ output.permissions["reports"] = <<1>>

\* The report codes a resolved reports list holds.
Codes(reports) == {reports[i].code : i \in DOMAIN reports}

\* C18: when the resolved roles contain admin, the resolved reports hold every
\* active report, whatever the grants are, and so does the summary of the role
\* admin; a profile without admin whose roles grant no report has no report.
C18_AdminSeesEveryActiveReport ==
    /\ output.done =>
          /\ "admin" \in {output.roles[i] : i \in DOMAIN output.roles} =>
                \A rep \in Reports : input.report_active[rep] => rep \in Codes(output.reports)
          /\ (/\ "admin" \notin {output.roles[i] : i \in DOMAIN output.roles}
              /\ \A role \in ExpectedRoles(input) : \A rep \in Reports :
                    input.grants[<<role, rep>>] = "none")
             => output.reports = <<>>
    /\ output.summarised =>
          \A rep \in Reports :
             input.report_active[rep] =>
                \A role \in Roles :
                   input.role_name[role] = "admin" =>
                      rep \in {output.summary[role][i] : i \in DOMAIN output.summary[role]}

\* No role has a grant with can_view, both reports are active, the user holds
\* admin through its group: the profile and the summary of admin list both.
C18_Witness ==
    /\ output.done /\ output.summarised
    /\ \A role \in Roles : \A rep \in Reports : input.grants[<<role, rep>>] # "view"
    /\ \A rep \in Reports : input.report_active[rep]
    /\ input.user_roles = {}
    /\ output.roles = <<"admin">>
    /\ Codes(output.reports) = Reports
    /\ input.role_name[1] = "admin"
    /\ output.summary[1] = <<"deals", "sales">>

\* C19: in a profile without the role admin a report is listed exactly when it
\* is active and a grant with can_view = true of one of the collected active
\* roles names it; a code is listed once, with the code, name and route of its
\* report; a grant with can_view = false of another role does not hide it.
C19_ReportsFollowViewGrants ==
    (output.done /\ "admin" \notin NamesOf(input, ExpectedRoles(input))) =>
        /\ Codes(output.reports) =
              {rep \in Reports :
                  /\ input.report_active[rep]
                  /\ \E role \in ExpectedRoles(input) : input.grants[<<role, rep>>] = "view"}
        /\ \A i, j \in DOMAIN output.reports :
              output.reports[i].code = output.reports[j].code => i = j
        /\ \A i \in DOMAIN output.reports :
              output.reports[i] = ReportRow(output.reports[i].code)

\* The roles editor and viewer both reach the user; editor's grant on sales
\* has can_view = false and viewer's has can_view = true, both grant deals:
\* the profile lists sales (sorted by its name "Sales") and deals, each once.
C19_Witness ==
    /\ output.done
    /\ input.role_name[1] = "editor"
    /\ ExpectedRoles(input) = Roles
    /\ input.grants[<<1, "sales">>] = "hidden" /\ input.grants[<<2, "sales">>] = "view"
    /\ input.grants[<<1, "deals">>] = "view" /\ input.grants[<<2, "deals">>] = "view"
    /\ Len(output.reports) = 2
    /\ output.reports[1].code = "sales" /\ output.reports[2].code = "deals"

\* The rows of a grant table for an owner and a role.
GrantRows(table, owner, role) == {x \in table : x.owner = owner /\ x.role_id = role}

\* How often the sequence s lists x.
Occurrences(s, x) == Cardinality({i \in DOMAIN s : s[i] = x})

\* The table the last call wrote to.
TableOf(op) == IF op = "user" THEN user_roles ELSE group_roles

\* C20: whatever calls of assign_role_to_user and assign_role_to_group have
\* been made, a pair has at most one grant row; after a call for an existing
\* owner and role the pair has exactly one row and the summary returned lists
\* the role once (its id, and its name when the role is active); a call for a
\* pair that is already granted succeeds and changes no row.
C20_GrantsAreIdempotent ==
    /\ [](/\ \A u \in Users : \A role \in Roles :
                Cardinality(GrantRows(user_roles, u, role)) <= 1
          /\ \A group \in Groups : \A role \in Roles :
                Cardinality(GrantRows(group_roles, group, role)) <= 1
          /\ (output.op # None /\ output.role \in Roles /\ output.owner # "nobody") =>
                /\ output.ok
                /\ Cardinality(GrantRows(TableOf(output.op), output.owner, output.role)) = 1
                /\ Occurrences(output.role_ids, output.role) = 1
                /\ Occurrences(output.roles, input.role_name[output.role]) =
                      IF input.role_active[output.role] THEN 1 ELSE 0)
    /\ [][/\ (output'.op = "user" /\ GrantRows(user_roles, output'.owner, output'.role) # {})
                => (output'.ok /\ user_roles' = user_roles /\ group_roles' = group_roles)
          /\ (output'.op = "group" /\ GrantRows(group_roles, output'.owner, output'.role) # {})
                => (output'.ok /\ user_roles' = user_roles /\ group_roles' = group_roles)
         ]_vars

\* The role viewer has been granted to u1 and the call has been repeated: the
\* repeated call appended nothing, there is one row, and its summary lists the
\* role once.  The group analysts holds both roles.
C20_Witness ==
    /\ GrantRows(user_roles, "u1", 2) # {}
    /\ Cardinality(user_roles) = 1
    /\ Cardinality(group_roles) = 2
    /\ input.role_active[2]
    /\ output.op = "user" /\ output.ok /\ output.owner = "u1" /\ output.role = 2
    /\ ~output.appended
    /\ output.roles = <<"viewer">> /\ output.role_ids = <<2>>

\* C21: creating a role, group or user whose name (or email) an existing row
\* already uses fails with the Duplicate*Error of the table and leaves the rows
\* unchanged; of two concurrent creations with the same name one succeeds and
\* the other fails with its Duplicate*Error, never with a generic storage
\* error.  Stated here: no creation ends with IntegrityError, a failed one
\* changes no row, and the tables never hold a name twice.
C21_DuplicateCreationFails ==
    /\ [](\A i, j \in DOMAIN entities :
            i # j /\ entities[i].kind = entities[j].kind
                => /\ entities[i].name # entities[j].name
                   /\ entities[i].kind = "user" => entities[i].email # entities[j].email)
    /\ [][\A r \in Reqs :
            admin'[r] # admin[r] /\ admin'[r].pc = "idle"
                => /\ admin'[r].result \in {"ok", "NotFoundError", DuplicateError(admin'[r].kind)}
                   /\ admin'[r].result # "ok" => entities' = entities
                   /\ name_exists(entities, admin'[r].kind, admin'[r].name, admin'[r].email)
                          => admin'[r].result = DuplicateError(admin'[r].kind)]_vars

\* The rows of the other pairs after a call on (role, report).
OtherLinks(table, role, report) == table \ links_of(table, role, report)

\* C22 as stated: at most one grant row per (role, report); a call of
\* assign_report_to_role on an existing pair keeps the row and sets can_view;
\* can_view = false takes the report out of the role's visible reports and
\* can_view = true puts an active report back; remove_report_from_role deletes
\* the row and raises NotFoundError when the pair has none; no call touches the
\* rows of another pair.
C22_OneGrantRowPerPair ==
    /\ [](\A x, y \in report_links :
            x.role_id = y.role_id /\ x.report_id = y.report_id => x = y)
    /\ [][output' # output \/ report_links' # report_links =>
            LET o == output'
                here == links_of(report_links, o.role, o.report)
                visible == {o.reports[i] : i \in DOMAIN o.reports}
            IN  /\ OtherLinks(report_links', o.role, o.report)
                      = OtherLinks(report_links, o.role, o.report)
                /\ o.op = "assign" /\ o.ok =>
                      /\ links_of(report_links', o.role, o.report)
                            = {RoleReport(o.role, o.report, o.can_view)}
                      /\ ~o.can_view => o.report \notin visible
                      /\ o.can_view /\ input.report_active[o.report] => o.report \in visible
                /\ o.op = "assign" /\ ~o.ok => report_links' = report_links
                /\ o.op = "remove" =>
                      /\ o.ok <=> here # {}
                      /\ ~o.ok => o.error = "NotFoundError"
                      /\ links_of(report_links', o.role, o.report) = {}]_vars

\* C22, amended: the same for every role except that the summary of the role
\* named admin lists every active report whatever its grants, so can_view =
\* false hides the report only for a role not named admin.
C22_OneGrantRowPerPairButAdmin ==
    /\ [](\A x, y \in report_links :
            x.role_id = y.role_id /\ x.report_id = y.report_id => x = y)
    /\ [][output' # output \/ report_links' # report_links =>
            LET o == output'
                here == links_of(report_links, o.role, o.report)
                visible == {o.reports[i] : i \in DOMAIN o.reports}
            IN  /\ OtherLinks(report_links', o.role, o.report)
                      = OtherLinks(report_links, o.role, o.report)
                /\ o.op = "assign" /\ o.ok =>
                      /\ links_of(report_links', o.role, o.report)
                            = {RoleReport(o.role, o.report, o.can_view)}
                      /\ ~o.can_view /\ input.role_name[o.role] # "admin"
                            => o.report \notin visible
                      /\ ~o.can_view /\ input.role_name[o.role] = "admin"
                            => (o.report \in visible <=> input.report_active[o.report])
                      /\ o.can_view /\ input.report_active[o.report] => o.report \in visible
                /\ o.op = "assign" /\ ~o.ok => report_links' = report_links
                /\ o.op = "remove" =>
                      /\ o.ok <=> here # {}
                      /\ ~o.ok => o.error = "NotFoundError"
                      /\ links_of(report_links', o.role, o.report) = {}]_vars

\* A report granted to the role editor has been hidden by a second call on the
\* pair: the row is kept with can_view false and the summary lists the other
\* report only.
C22_Witness ==
    /\ output.op = "assign" /\ output.ok /\ ~output.can_view
    /\ output.role = 1 /\ input.role_name[1] = "editor"
    /\ output.report = "deals" /\ input.report_active["deals"]
    /\ RoleReport(1, "deals", FALSE) \in report_links
    /\ RoleReport(1, "sales", TRUE) \in report_links
    /\ output.reports = <<"sales">>

\* The number of bytes of the UTF-8 encoding of a code point.
Width(cp) == IF cp < 128 THEN 1 ELSE IF cp < 2048 THEN 2 ELSE IF cp < 65536 THEN 3 ELSE 4

RECURSIVE ByteLength(_)
ByteLength(password) ==
    IF password = <<>> THEN 0 ELSE Width(Head(password)) + ByteLength(Tail(password))

\* C23: hash_password succeeds for every password whose UTF-8 encoding has at
\* most 72 bytes, hashing all of its bytes, and raises, hashing nothing, for
\* every password of 73 bytes or more; the limit counts encoded bytes, not
\* characters.
C23_PasswordLimitCountsBytes ==
    output.done =>
        /\ ByteLength(input) <= 72 =>
              ~output.raised /\ Len(output.hashed) = ByteLength(input)
        /\ ByteLength(input) >= 73 =>
              output.raised /\ output.error = "ValueError" /\ output.hashed = <<>>

\* A password of 72 characters and 73 bytes has been refused.
C23_Witness ==
    /\ output.done /\ output.raised
    /\ Len(input) = 72 /\ ByteLength(input) = 73

\* C24: after deactivate_user(u) the row of u exists with is_active false and
\* stays so; list_users() leaves u out and list_users(include_inactive=True)
\* holds u; every authenticate call that loads the deactivated account returns
\* None, whatever the password, and writes nothing to the users table.
C24_DeactivatedUserCannotLogIn ==
    /\ [](output.op = "deactivate_user" /\ output.error = None =>
            /\ users[output.user].present
            /\ ~users[output.user].is_active
            /\ ~output.is_active)
    /\ [](output.op = "list_users" =>
            \A u \in Users :
                users[u].present /\ ~users[u].is_active =>
                    (u \in output.listed <=> output.include_inactive))
    /\ [][\A u \in Users :
            users[u].present /\ ~users[u].is_active
                => users'[u].present /\ ~users'[u].is_active]_vars
    /\ [][\A r \in Reqs :
            /\ (/\ call[r].pc # "commit" /\ call'[r].pc = "commit"
                /\ call'[r].username \in Users
                /\ ~users[call'[r].username].is_active)
               => call'[r].a.result = "none"
            /\ (call[r].pc = "commit" /\ call'[r].pc = "done" /\ call[r].a.result = "none")
               => call'[r].result = "none" /\ users' = users]_vars

\* The account u1 has been deactivated and a login with its right password,
\* begun afterwards, has failed; the last listing, of all users, holds u1.
C24_Witness ==
    /\ ~users["u1"].is_active
    /\ \E r \in Reqs :
          /\ call[r].pc = "done" /\ call[r].username = "u1"
          /\ call[r].password = PasswordOf("u1")
          /\ call[r].kind = "missing" /\ call[r].result = "none"
    /\ output.op = "list_users" /\ output.include_inactive /\ "u1" \in output.listed

\* The user, session, group and grant rows.
DeleteTables == <<users, rows, entities, user_roles, group_roles, user_groups>>

\* C25: delete_user and delete_group of an existing id remove the row together
\* with its grant rows, so that no listing holds it any more, inactive ones
\* included; deleting an id that does not exist raises NotFoundError and
\* changes nothing.
C25_DeleteRemovesRowAndGrants ==
    /\ [](output.op = "list_users" => \A u \in output.listed : users[u].present)
    /\ [](output.op = "list_groups" => \A g \in output.listed : GroupFound(entities, g))
    /\ [][output' # output \/ DeleteTables' # DeleteTables =>
            LET o == output' IN
            /\ o.op = "delete_user" =>
                  IF o.user \in Users /\ users[o.user].present
                  THEN /\ o.error = None
                       /\ ~users'[o.user].present
                       /\ o.user \notin ListedUsers(users', TRUE)
                       /\ \A x \in user_roles' \cup user_groups' : x.owner # o.user
                       /\ \A x \in rows' : x.user_id # o.user
                  ELSE o.error = "NotFoundError" /\ DeleteTables' = DeleteTables
            /\ o.op = "delete_group" =>
                  IF GroupFound(entities, o.user)
                  THEN /\ o.error = None
                       /\ o.user \notin ListedGroups(entities', TRUE)
                       /\ \A x \in group_roles' : x.owner # o.user
                       /\ \A x \in user_groups' : x.group_id # o.user
                  ELSE o.error = "NotFoundError" /\ DeleteTables' = DeleteTables
            /\ o.op \in {"list_users", "list_groups"} => DeleteTables' = DeleteTables]_vars

\* The reports the roles of a user other than an administrator grant it.
GrantedReports(g) ==
    {report \in Reports :
        \E role \in ExpectedRoles(g) :
            g.grants[<<role, report>>] = "view" /\ g.report_active[report]}

C27_RowsCarryTheirUser ==
    \A x \in rows :
        /\ x.user_id # None
        /\ x.is_active => x.user_id = x.session_data.user_id
        /\ x.session_data.user_id = None => ~x.is_active

\* The failed logins of the account among the last n audit rows after its
\* last successful login.
RECURSIVE FailuresSinceSuccess(_, _, _)
FailuresSinceSuccess(logs, u, n) ==
    IF n = 0 THEN 0
    ELSE IF logs[n].user_id # u \/ logs[n].action # "login"
    THEN FailuresSinceSuccess(logs, u, n - 1)
    ELSE IF logs[n].success THEN 0
    ELSE 1 + FailuresSinceSuccess(logs, u, n - 1)

\* C28: failed_login_attempts of an account equals the number of committed
\* wrong-password logins since its last successful login, also when logins run
\* concurrently (no increment is lost); a successful login sets it to 0.
\* Stated for u1, which is active throughout, so that each of its failed
\* logins is one with a wrong password.
C28_NoFailedLoginLost ==
    accounts["u1"].failed_login_attempts
        = FailuresSinceSuccess(auth_logs, "u1", Len(auth_logs))

\* The session map grants read on the resource.
Reads(session_data, resource) ==
    /\ resource \in DOMAIN session_data.permissions
    /\ "read" \in {session_data.permissions[resource][i] :
                      i \in DOMAIN session_data.permissions[resource]}

\* The roles contain admin, or the permissions grant read on admin or on "*".
AdminGranted(session_data) ==
    \/ "admin" \in {session_data.roles[i] : i \in DOMAIN session_data.roles}
    \/ Reads(session_data, "admin")
    \/ Reads(session_data, "*")

\* The resource a registered report is protected by, if any.
ResourceOf(code) == IF code = "sales_dashboard" THEN {"dashboard"} ELSE {}

\* C29: for a session without user_id render_page returns the login layout
\* for every pathname, with a redirect to /login for every path other than /
\* and /login (no path counts as /); for an authenticated session it returns
\* the admin layout only if the roles contain admin or the permissions grant
\* read on admin or on "*", and a report layout only if that holds or the
\* session grants read on the report's resource or lists the report's code.
C29_NoProtectedPageWithoutGrant ==
    output.done =>
        LET s == input.session
            page == output.page
        IN  /\ s.user_id = None =>
                  /\ page.layout = "login"
                  /\ page.redirect = IF input.pathname \in {NoPath, "/", "/login"}
                                     THEN "no_update" ELSE "/login"
            /\ page.layout = "admin" => s.user_id # None /\ AdminGranted(s)
            /\ page.layout = "report" =>
                  /\ s.user_id # None
                  /\ \/ AdminGranted(s)
                     \/ \E resource \in ResourceOf(page.code) : Reads(s, resource)
                     \/ page.code \in {s.reports[i].code : i \in DOMAIN s.reports}

\* A user without the role admin and without any read permission has been
\* shown the report its session lists, and nothing else would have let it in.
C29_Witness ==
    /\ output.done
    /\ input.session.user_id = "u1"
    /\ ~AdminGranted(input.session)
    /\ ~Reads(input.session, "dashboard")
    /\ input.pathname = "/dashboard"
    /\ output.page.layout = "report" /\ output.page.code = "sales_dashboard"

\* The user, role, group and grant rows.
AdminTables == <<users, entities, user_roles, group_roles, user_groups, report_links>>

\* C30: every AdminService operation is atomic: when it raises (NotFoundError
\* for an unknown user, role, group or report id, including one unknown id in
\* the role_ids or group_ids of create_user, update_user or update_group, or a
\* Duplicate*Error), the transaction is rolled back and no user, role, group or
\* grant row differs from the state before the call.
C30_FailedCallChangesNoRow ==
    [][/\ admin' = admin /\ output'.error # None => AdminTables' = AdminTables
       /\ \A r \in Reqs :
             admin'[r] # admin[r] /\ admin'[r].pc = "idle" /\ admin'[r].result # "ok"
                => AdminTables' = AdminTables]_vars

\* update_user has assigned is_active = False to the loaded user and then met
\* an unknown role or group id: the call raised NotFoundError and the user is
\* as active as before.
C30_Witness ==
    /\ output.op = "update_user"
    /\ output.id = "u1"
    /\ output.is_active = "false"
    /\ output.error = "NotFoundError"
    /\ users["u1"].is_active

====
